---- MODULE Spec2Model ----
(***************************************************************************)
(* Key protection (agent_protect / agent_unprotect / agent_shadow_key /    *)
(* agent_get_shadow_info / agent_private_key_type) of src/scd/command.c.   *)
(*                                                                         *)
(* A buffer is a sequence of bytes.  A byte is a record:                   *)
(*   [c |-> 0..255]          a concrete octet (ASCII code)                 *)
(*   [r |-> id]              an octet of gcry_random_bytes output          *)
(*   [v |-> id]              an opaque octet of key material               *)
(*   [h |-> data, i |-> k]   octet k of the digest of the byte string data *)
(*   [ek, eiv, j, pt, i]     octet i of block j of a CBC ciphertext        *)
(*   [x |-> b, bit |-> n]    the non-concrete octet b with bit n flipped   *)
(*   [g |-> kind, i |-> k]   octet k of a block that deciphers to noise    *)
(* The hash and the block cipher are ideal: digests and cipher blocks are  *)
(* equal only when they were computed from equal inputs.                   *)
(***************************************************************************)
EXTENDS Integers, Sequences, FiniteSets, TLC

(***************************************************************************)
(* Bytes and literals                                                      *)
(***************************************************************************)
Letters == <<"a","b","c","d","e","f","g","h","i","j","k","l","m",
             "n","o","p","q","r","s","t","u","v","w","x","y","z">>

Digits == <<"0","1","2","3","4","5","6","7","8","9">>

AscTab ==
  [ch \in {Letters[i] : i \in 1..26} |->
      96 + (CHOOSE i \in 1..26 : Letters[i] = ch)] @@
  [ch \in {Digits[i] : i \in 1..10} |->
      47 + (CHOOSE i \in 1..10 : Digits[i] = ch)] @@
  ("(" :> 40) @@ (")" :> 41) @@ (":" :> 58) @@ ("-" :> 45) @@ ("/" :> 47)

Lit(n) == [c |-> n]

NUL == Lit(0)

IsLit(b) == DOMAIN b = {"c"}

\* a C string literal, one character per element
B(t) == [i \in 1..Len(t) |-> Lit(AscTab[t[i]])]

LPAREN == Lit(40)

RPAREN == Lit(41)

COLON == Lit(58)

\* reading buf[i]; every buffer is followed by a NUL terminator
At(buf, i) == IF i \in 1..Len(buf) THEN buf[i] ELSE NUL

digitp(b) == IsLit(b) /\ b.c >= 48 /\ b.c <= 57

atoi_1(b) == b.c - 48

RECURSIVE DecDigits(_)
DecDigits(n) == IF n < 10 THEN <<Lit(48 + n)>>
                ELSE DecDigits(n \div 10) \o <<Lit(48 + (n % 10))>>

\* printf ("%d", n) for n >= 0
Dec(n) == DecDigits(n)

\* memcpy source: the bytes buf[from .. to], empty when to < from
Span(buf, from, to) == IF to < from THEN <<>> ELSE SubSeq(buf, from, to)

(***************************************************************************)
(* Error codes                                                             *)
(***************************************************************************)
OK == "OK"

GNUPG_Invalid_Sexp == "InvalidSexp"

GNUPG_Unknown_Sexp == "UnknownSexp"

GNUPG_Unsupported_Algorithm == "UnsupportedAlgorithm"

GNUPG_Unsupported_Protection == "UnsupportedProtection"

GNUPG_Unsupported_Protocol == "UnsupportedProtocol"

GNUPG_Corrupted_Protection == "CorruptedProtection"

GNUPG_Bad_Passphrase == "BadPassphrase"

GNUPG_Invalid_Value == "InvalidValue"

GNUPG_Out_Of_Core == "OutOfCore"

GNUPG_Bug == "Bug"

\* map_gcry_err (gcry_errno ()) and the codes of failing libgcrypt calls
CryptoBackend == "CryptoBackend"

(***************************************************************************)
(* Tokens                                                                  *)
(***************************************************************************)
TOK_private_key == B(<<"p","r","i","v","a","t","e","-","k","e","y">>)

TOK_protected_private_key ==
  B(<<"p","r","o","t","e","c","t","e","d","-">>) \o TOK_private_key

TOK_shadowed_private_key ==
  B(<<"s","h","a","d","o","w","e","d","-">>) \o TOK_private_key

TOK_public_key == B(<<"p","u","b","l","i","c","-","k","e","y">>)

TOK_protected == B(<<"p","r","o","t","e","c","t","e","d">>)

TOK_shadowed == B(<<"s","h","a","d","o","w","e","d">>)

TOK_t1_v1 == B(<<"t","1","-","v","1">>)

TOK_sha1 == B(<<"s","h","a","1">>)

TOK_hash == B(<<"h","a","s","h">>)

TOK_rsa == B(<<"r","s","a">>)

TOK_dsa == B(<<"d","s","a">>)

PROT_CIPHER_STRING == B(<<"a","e","s">>)

PROT_CIPHER_KEYLEN == 128 \div 8

modestr ==
  B(<<"o","p","e","n","p","g","p","-","s","2","k","3","-","s","h","a","1","-">>)
  \o PROT_CIPHER_STRING \o B(<<"-","c","b","c">>)

\* gcry_cipher_get_algo_blklen (GCRY_CIPHER_AES)
blklen == 16

\* gcry_md_get_algo_dlen (GCRY_MD_SHA1)
dlen == 20

protect_info == << [algo |-> TOK_rsa,
                    parmlist |-> B(<<"n","e","d","p","q","u">>),
                    prot_from |-> 2, prot_to |-> 5] >>

(***************************************************************************)
(* Canonical S-expression parser.  Positions are 1-based indices.          *)
(***************************************************************************)
RECURSIVE snext_scan(_, _, _)
snext_scan(buf, s, n) ==
  LET b == At(buf, s)
  IN IF b # NUL /\ b # COLON /\ digitp(b)
     THEN snext_scan(buf, s + 1, n * 10 + atoi_1(b))
     ELSE [n |-> n, s |-> s]

\* n = 0 is the error return; s is the updated *buf (unchanged on error)
snext(buf, s0) ==
  LET r == snext_scan(buf, s0, 0)
  IN IF r.n = 0 \/ At(buf, r.s) # COLON
     THEN [n |-> 0, s |-> s0]
     ELSE [n |-> r.n, s |-> r.s + 1]

\* a turn that steps over the length of an atom and not over its bytes
sskip_step_over_length(buf, st) ==
  LET atom(r) == IF r.n = 0 THEN [st EXCEPT !.rc = GNUPG_Invalid_Sexp]
                 ELSE [st EXCEPT !.s = r.s]
      octet(b) ==
        CASE b = LPAREN -> [st EXCEPT !.s = @ + 1, !.depth = @ + 1]
          [] b = RPAREN -> [st EXCEPT !.s = @ + 1, !.depth = @ - 1]
          [] OTHER -> atom(snext(buf, st.s))
  IN IF st.rc # OK \/ st.depth <= 0 THEN st ELSE octet(At(buf, st.s))

\* one turn of the loop of sskip: st.s is the read position, st.depth the
\* number of open lists
sskip_step(buf, st) ==
  LET atom(r) == IF r.n = 0 THEN [st EXCEPT !.rc = GNUPG_Invalid_Sexp]
                 ELSE [st EXCEPT !.s = r.s + r.n]
      octet(b) ==
        CASE b = LPAREN -> [st EXCEPT !.s = @ + 1, !.depth = @ + 1]
          [] b = RPAREN -> [st EXCEPT !.s = @ + 1, !.depth = @ - 1]
          [] OTHER -> atom(snext(buf, st.s))
  IN IF st.rc # OK \/ st.depth <= 0 THEN st ELSE octet(At(buf, st.s))

\* the loop, four turns at a time; *buf and *depth are written on success
RECURSIVE sskip_loop(_, _, _, _)
sskip_loop(buf, s0, d0, st) ==
  CASE st.rc # OK -> [rc |-> st.rc, s |-> s0, depth |-> d0]
    [] st.depth <= 0 -> st
    [] OTHER -> sskip_loop(buf, s0, d0,
                           sskip_step(buf,
                             sskip_step(buf,
                               sskip_step(buf,
                                 sskip_step(buf, st)))))

sskip(buf, s, depth) ==
  sskip_loop(buf, s, depth, [rc |-> OK, s |-> s, depth |-> depth])

\* an smatch that compares the lengths and skips the memcmp of line 474
smatch_length(buf, s, buflen, token) == buflen = Len(token)

\* TRUE on a match; the caller then advances by Len(token)
smatch(buf, s, buflen, token) ==
  /\ buflen = Len(token)
  /\ \A i \in 1..Len(token) : At(buf, s + i - 1) = token[i]

\* gcry_sexp_canon_len (buffer + start - 1, length, NULL, NULL) of libgcrypt:
\* the length of the canonical S-expression that starts there, 0 when it is
\* not one.  A length prefix may not begin with '0'.
\*
\* One turn of its loop over the tokens: st.count octets are read, st.level
\* lists are open; st.done when the scan has returned st.len.
canon_step(buf, start, length, st) ==
  LET stop(len) == [done |-> TRUE, len |-> len, count |-> st.count,
                    level |-> st.level]
      \* r: the digits of a length prefix, and the position of what ends them
      atom(r) ==
        IF At(buf, r.s) = COLON /\ (length = 0 \/ r.s - start + r.n < length)
        THEN [st EXCEPT !.count = r.s - start + r.n + 1]
        ELSE stop(0)
      octet(b) ==
        CASE b = LPAREN -> [st EXCEPT !.count = @ + 1, !.level = @ + 1]
          [] b = RPAREN /\ st.level = 0 -> stop(0)
          [] b = RPAREN /\ st.level = 1 -> stop(st.count + 1)
          [] b = RPAREN -> [st EXCEPT !.count = @ + 1, !.level = @ - 1]
          [] digitp(b) /\ atoi_1(b) # 0 ->
               atom(snext_scan(buf, start + st.count, 0))
          [] OTHER -> stop(0)
  IN CASE st.done -> st
       [] length # 0 /\ st.count >= length -> stop(0)
       [] OTHER -> octet(At(buf, start + st.count))

\* the loop, four turns at a time
RECURSIVE canon_scan(_, _, _, _)
canon_scan(buf, start, length, st) ==
  IF st.done THEN st.len
  ELSE canon_scan(buf, start, length,
                  canon_step(buf, start, length,
                    canon_step(buf, start, length,
                      canon_step(buf, start, length,
                        canon_step(buf, start, length, st)))))

gcry_sexp_canon_len(buf, start, length) ==
  IF At(buf, start) # LPAREN THEN 0
  ELSE canon_scan(buf, start, length,
                  [done |-> FALSE, len |-> 0, count |-> 0, level |-> 0])

(***************************************************************************)
(* libgcrypt primitives: SHA-1, the CBC cipher, the random source          *)
(***************************************************************************)
\* an atomic name for the value v; different values have different names
Tag(v) == ToString(v)

IsPeriod(str, p) == \A i \in 1..(Len(str) - p) : str[i] = str[i + p]

\* the shortest p such that str repeats with period p
MinPeriod(str) ==
  IF Len(str) = 0 THEN 0
  ELSE CHOOSE p \in 1..Len(str) :
         /\ IsPeriod(str, p)
         /\ \A q \in 1..(p - 1) : ~IsPeriod(str, q)

\* The byte string made of `full` copies of unit followed by tail, where
\* tail is a prefix of unit.  Equal byte strings have equal descriptors: the
\* descriptor is the string's length and its shortest period.
Stream(unit, full, tail) ==
  IF full < 2
  THEN LET str == (IF full = 1 THEN unit ELSE <<>>) \o tail
       IN [root |-> Span(str, 1, MinPeriod(str)), n |-> Len(str)]
  ELSE LET L == Len(unit)
           p == CHOOSE d \in 1..L :
                  /\ L % d = 0 /\ IsPeriod(unit, d)
                  /\ \A q \in 1..(d - 1) : ~(L % q = 0 /\ IsPeriod(unit, q))
       IN [root |-> Span(unit, 1, p), n |-> full * L + Len(tail)]

\* gcry_md_read after gcry_md_final: the digest of `zeros` NUL bytes followed
\* by the byte string with descriptor str
Digest(zeros, str) ==
  [k \in 1..dlen |-> [h |-> Tag([zeros |-> zeros, str |-> str]), i |-> k]]

\* gcry_md_hash_buffer (GCRY_MD_SHA1, digest, buffer, length)
gcry_md_hash_buffer(buffer) == Digest(0, Stream(buffer, 1, <<>>))

\* a XOR b on octets
RECURSIVE XorBits(_, _, _)
XorBits(a, b, k) ==
  IF k = 0 THEN 0
  ELSE 2 * XorBits(a \div 2, b \div 2, k - 1) + ((a + b) % 2)

Xor(a, b) == XorBits(a, b, 8)

Pow2(k) == 2 ^ k

\* the octet b with bit number `bit` inverted
FlipBit(b, bit) ==
  IF IsLit(b) THEN Lit(Xor(b.c, Pow2(bit)))
  ELSE IF DOMAIN b = {"x", "bit"} /\ b.bit = bit THEN b.x
  ELSE [x |-> b, bit |-> bit]

\* octet i of block j when an n-byte text deciphers to noise.  The noise is
\* any byte string; `kind` selects its shape:
\*   noise   no structure at all
\*   open    an open paren, then noise
\*   atom    a canonical list holding one long atom
\*   shaped  (((1:d<L>:...))(4:hash4:sha120:....)) with a noise MIC
GarbageKinds == {"noise", "open", "atom", "shaped"}

AtomFill(n, base) ==
  CHOOSE L \in 0..n :
    /\ (L = 0 \/ base + Len(Dec(L)) + L <= n - 1)
    /\ \A M \in (L + 1)..n : base + Len(Dec(M)) + M > n - 1

NoiseBytes(kind, from, to) == [q \in 1..(to - from + 1) |-> [g |-> kind, i |-> from + q - 1]]

GarbageText(kind, n) ==
  LET pad(str) == str \o NoiseBytes(kind, Len(str) + 1, n)
  IN IF kind = "open" THEN pad(<<LPAREN>>)
     ELSE IF kind = "atom" /\ AtomFill(n, 3) > 0
     THEN LET L == AtomFill(n, 3)
          IN pad(<<LPAREN>> \o Dec(L) \o <<COLON>> \o NoiseBytes(kind, 1, L)
                 \o <<RPAREN>>)
     ELSE IF kind = "shaped" /\ AtomFill(n, 47) > 0
     THEN LET L == AtomFill(n, 47)
          IN pad(B(<<"(","(","(","1",":","d">>) \o Dec(L) \o <<COLON>>
                 \o NoiseBytes(kind, 1, L)
                 \o B(<<")",")","(","4",":","h","a","s","h","4",":","s","h","a","1","2","0",":">>)
                 \o NoiseBytes(kind, n + 1, n + dlen) \o <<RPAREN, RPAREN>>)
     ELSE NoiseBytes(kind, 1, n)

IsEncByte(b) == DOMAIN b = {"ek", "eiv", "j", "pt", "i"}

IsDigestByte(b) == DOMAIN b = {"h", "i"}

\* a short form of a key: the head of a digest is named by the digest
Pack(bytes) ==
  IF Len(bytes) > 0 /\ \A i \in 1..Len(bytes) :
       IsDigestByte(bytes[i]) /\ bytes[i].i = i /\ bytes[i].h = bytes[1].h
  THEN <<bytes[1].h, Len(bytes)>>
  ELSE bytes

\* CBC encryption of text (a whole number of blocks) under key with iv.
\* Octet i of cipher block j is named by the key, the iv, the block's number
\* and the plain octet it carries; no two encryptions of a behaviour share
\* key and iv, so equal octets come from equal plain texts.
EncBlock(key, iv, text, j) ==
  [i \in 1..blklen |-> [ek |-> Tag(Pack(key)), eiv |-> Tag(iv), j |-> j,
                        pt |-> text[blklen * (j - 1) + i], i |-> i]]

RECURSIVE EncBlocks(_, _, _, _)
EncBlocks(key, iv, text, j) ==
  IF j = 0 THEN <<>>
  ELSE EncBlocks(key, iv, text, j - 1) \o EncBlock(key, iv, text, j)

gcry_cipher_encrypt(key, iv, text) ==
  EncBlocks(key, iv, text, Len(text) \div blklen)

IsFlipped(b) == DOMAIN b = {"x", "bit"}

\* the block with its single-bit inversions undone
Repair(block) == [i \in 1..Len(block) |-> IF IsFlipped(block[i]) THEN block[i].x
                                          ELSE block[i]]

\* c is a whole block our cipher made
IsBlock(c) ==
  \A i \in 1..blklen :
    /\ IsEncByte(c[i]) /\ c[i].i = i
    /\ c[i].ek = c[1].ek /\ c[i].eiv = c[1].eiv /\ c[i].j = c[1].j

\* prev is what the block c was chained to when it was made
Follows(c, prev) ==
  IF c[1].j = 1 THEN Tag(prev) = c[1].eiv
  ELSE /\ IsBlock(prev)
       /\ prev[1].ek = c[1].ek /\ prev[1].eiv = c[1].eiv
       /\ prev[1].j = c[1].j - 1

\* CBC decryption of block m of ctext (prev is the block before it, the iv
\* for the first).  A block our cipher made under this key gives its plain
\* block when prev is what it was chained to, and its plain block with bits
\* inverted when prev is that with the same bits inverted; anything else
\* gives noise.
DecBlock(key, prev, ctext, m, garbage) ==
  LET c == Span(ctext, blklen * (m - 1) + 1, blklen * m)
      noise == Span(garbage, blklen * (m - 1) + 1, blklen * m)
      P == [i \in 1..blklen |-> c[i].pt]
  IN IF ~IsBlock(c) THEN noise
     ELSE IF c[1].ek # Tag(Pack(key)) THEN noise
     ELSE IF Follows(c, prev) THEN P
     ELSE IF Follows(c, Repair(prev))
     THEN [i \in 1..blklen |-> IF IsFlipped(prev[i]) THEN FlipBit(P[i], prev[i].bit)
                               ELSE P[i]]
     ELSE noise

RECURSIVE DecBlocks(_, _, _, _, _)
DecBlocks(key, iv, ctext, j, garbage) ==
  IF j = 0 THEN <<>>
  ELSE DecBlocks(key, iv, ctext, j - 1, garbage)
       \o DecBlock(key,
                   IF j = 1 THEN iv
                   ELSE Span(ctext, blklen * (j - 2) + 1, blklen * (j - 1)),
                   ctext, j, garbage)

gcry_cipher_decrypt(key, iv, ctext, kind) ==
  DecBlocks(key, iv, ctext, Len(ctext) \div blklen, GarbageText(kind, Len(ctext)))

(***************************************************************************)
(* calculate_mic and hash_passphrase                                       *)
(***************************************************************************)
\* one turn of the walk over the parameter lists, lines 509-523: st.s is
\* the read position
mic_step(buf, st) ==
  LET bad == [rc |-> GNUPG_Invalid_Sexp, s |-> st.s, done |-> TRUE]
      value(r2) == IF r2.n = 0 THEN bad
                   ELSE IF At(buf, r2.s + r2.n) # RPAREN THEN bad
                   ELSE [st EXCEPT !.s = r2.s + r2.n + 1]
      name(r1) == IF r1.n = 0 THEN bad ELSE value(snext(buf, r1.s + r1.n))
  IN CASE st.done -> st
       [] At(buf, st.s) # LPAREN -> [st EXCEPT !.done = TRUE]
       [] OTHER -> name(snext(buf, st.s + 1))

\* the walk, three turns at a time
RECURSIVE mic_loop(_, _)
mic_loop(buf, st) ==
  IF st.done THEN st
  ELSE mic_loop(buf, mic_step(buf, mic_step(buf, mic_step(buf, st))))

mic_parms(buf, s) == mic_loop(buf, [rc |-> OK, s |-> s, done |-> FALSE])

\* a MIC over the whole buffer up to the end of the inner list
calculate_mic_from_start(plainkey) ==
  LET bad(rc) == [rc |-> rc, sha1hash |-> <<>>]
      walked(hash_begin, w) ==
        IF w.rc # OK THEN bad(w.rc)
        ELSE IF At(plainkey, w.s) # RPAREN THEN bad(GNUPG_Invalid_Sexp)
        ELSE [rc |-> OK,
              sha1hash |-> gcry_md_hash_buffer(Span(plainkey, 1, w.s))]
      algo(hash_begin, r2) ==
        IF r2.n = 0 THEN bad(GNUPG_Invalid_Sexp)
        ELSE walked(hash_begin, mic_parms(plainkey, r2.s + r2.n))
      top(r1) ==
        IF r1.n = 0 THEN bad(GNUPG_Invalid_Sexp)
        ELSE IF ~smatch(plainkey, r1.s, r1.n, TOK_private_key)
        THEN bad(GNUPG_Unknown_Sexp)
        ELSE IF At(plainkey, r1.s + r1.n) # LPAREN THEN bad(GNUPG_Unknown_Sexp)
        ELSE algo(r1.s + r1.n, snext(plainkey, r1.s + r1.n + 1))
  IN IF At(plainkey, 1) # LPAREN THEN bad(GNUPG_Invalid_Sexp)
     ELSE top(snext(plainkey, 2))

calculate_mic(plainkey) ==
  LET bad(rc) == [rc |-> rc, sha1hash |-> <<>>]
      \* lines 524-532
      walked(hash_begin, w) ==
        IF w.rc # OK THEN bad(w.rc)
        ELSE IF At(plainkey, w.s) # RPAREN THEN bad(GNUPG_Invalid_Sexp)
        ELSE [rc |-> OK,
              sha1hash |-> gcry_md_hash_buffer(Span(plainkey, hash_begin, w.s))]
      \* lines 504-523
      algo(hash_begin, r2) ==
        IF r2.n = 0 THEN bad(GNUPG_Invalid_Sexp)
        ELSE walked(hash_begin, mic_parms(plainkey, r2.s + r2.n))
      \* lines 494-503
      top(r1) ==
        IF r1.n = 0 THEN bad(GNUPG_Invalid_Sexp)
        ELSE IF ~smatch(plainkey, r1.s, r1.n, TOK_private_key)
        THEN bad(GNUPG_Unknown_Sexp)
        ELSE IF At(plainkey, r1.s + r1.n) # LPAREN THEN bad(GNUPG_Unknown_Sexp)
        ELSE algo(r1.s + r1.n, snext(plainkey, r1.s + r1.n + 1))
  IN IF At(plainkey, 1) # LPAREN THEN bad(GNUPG_Invalid_Sexp)
     ELSE top(snext(plainkey, 2))

\* a feeding loop that writes salt and passphrase whole, lines 1209-1214
\* without lines 1215-1222
s2k_material_whole(passphrase, s2kmode, s2ksalt, s2kcount) ==
  LET len2 == Len(passphrase) + 8
      c3 == (16 + (s2kcount % 16)) * 2 ^ ((s2kcount \div 16) + 6)
      count == IF s2kmode = 3 THEN (IF c3 < len2 THEN len2 ELSE c3) ELSE len2
  IN IF s2kmode = 1 \/ s2kmode = 3
     THEN Stream(s2ksalt \o passphrase, (count + len2 - 1) \div len2, <<>>)
     ELSE Stream(passphrase, 1, <<>>)

\* the bytes one pass feeds to the hash, as a Stream descriptor
s2k_material(passphrase, s2kmode, s2ksalt, s2kcount) ==
  LET pwlen == Len(passphrase)
      len2 == pwlen + 8
      unit == s2ksalt \o passphrase
      c3 == (16 + (s2kcount % 16)) * 2 ^ ((s2kcount \div 16) + 6)
      count == IF s2kmode = 3 THEN (IF c3 < len2 THEN len2 ELSE c3) ELSE len2
      \* the while loop of lines 1209-1214, then lines 1215-1222
      fed(loops, rest) ==
        IF rest = len2 THEN Stream(unit, loops + 1, <<>>)
        ELSE IF rest < 8 THEN Stream(unit, loops, Span(s2ksalt, 1, rest))
        ELSE Stream(unit, loops, s2ksalt \o Span(passphrase, 1, rest - 8))
      looped(loops) == fed(loops, count - loops * len2)
  IN IF s2kmode = 1 \/ s2kmode = 3
     THEN looped(IF count > len2 THEN (count - 1) \div len2 ELSE 0)
     ELSE Stream(passphrase, 1, <<>>)

\* passes without the preset of lines 1192-1197
RECURSIVE s2k_passes_no_preset(_, _, _, _)
s2k_passes_no_preset(material, pass, used, keylen) ==
  IF used < keylen
  THEN LET i == IF dlen > keylen - used THEN keylen - used ELSE dlen
       IN Span(Digest(0, material), 1, i)
          \o s2k_passes_no_preset(material, pass + 1, used + i, keylen)
  ELSE <<>>

\* the passes of lines 1190-1231 from pass on, used bytes of the key being
\* there: the bytes they add to the key
RECURSIVE s2k_passes(_, _, _, _)
s2k_passes(material, pass, used, keylen) ==
  IF used < keylen
  THEN LET i == IF dlen > keylen - used THEN keylen - used ELSE dlen
       IN Span(Digest(pass, material), 1, i)
          \o s2k_passes(material, pass + 1, used + i, keylen)
  ELSE <<>>

\* Release without the xfree (iv) of lines 637, 666 and 675
Release_keeps_iv(held, freed) == held \ (freed \ {"iv"})

\* xfree / gcry_cipher_close / gcry_md_close of the resources in `freed`
Release(held, freed) == held \ freed

\* memcpy (buf + off + 1, bytes, Len(bytes)): the copy lands one byte late
Overwrite_shifted(buf, off, bytes) ==
  [i \in 1..Len(buf) |->
     IF i > off + 1 /\ i <= off + 1 + Len(bytes) THEN bytes[i - off - 1] ELSE buf[i]]

\* memcpy (buf + off, bytes, Len(bytes))
Overwrite(buf, off, bytes) ==
  [i \in 1..Len(buf) |->
     IF i > off /\ i <= off + Len(bytes) THEN bytes[i - off] ELSE buf[i]]

Spaces(n) == [i \in 1..n |-> Lit(32)]

\* live: what the call still holds when it returns
hash_passphrase(passphrase, s2kmode, s2ksalt, s2kcount, keylen, fail) ==
  IF (s2kmode # 0 /\ s2kmode # 1 /\ s2kmode # 3) \/ keylen = 0
  THEN [rc |-> GNUPG_Invalid_Value, key |-> <<>>, live |-> {}]
  ELSE IF fail = "md_open"
  THEN [rc |-> CryptoBackend, key |-> <<>>, live |-> {}]
  ELSE [rc |-> OK,
        key |-> s2k_passes(s2k_material(passphrase, s2kmode, s2ksalt, s2kcount),
                           0, 0, keylen),
        live |-> Release({"md"}, {"md"})]

(***************************************************************************)
(* do_encryption and agent_protect.  `fail` names the one library call     *)
(* that fails during the operation ("none": all succeed); rnd is the       *)
(* output of gcry_random_bytes (2 * blklen + 8 bytes).                     *)
(***************************************************************************)
do_encryption(protbegin, protlen, passphrase, sha1hash, rnd, fail) ==
  LET outlen == 2 + protlen + 2 + 6 + 6 + 23 + 2 + blklen
      enclen == (outlen \div blklen) * blklen
      ret(rc, res, live, written) ==
        [rc |-> rc, result |-> res, resultlen |-> Len(res), live |-> live,
         outlen |-> outlen, enclen |-> enclen, written |-> written]
      \* lines 650-674: the scaffold with placeholders, then the memcpys
      scaffold(encrypted) ==
        LET part1 == B(<<"(","9",":","p","r","o","t","e","c","t","e","d">>)
                     \o Dec(Len(modestr)) \o <<COLON>> \o modestr
                     \o B(<<"(","(","4",":","s","h","a","1","8",":">>)
            part2 == <<Lit(95)>> \o B(<<"8","b","y","t","e","s">>) \o <<Lit(95)>>
                     \o B(<<"2",":","9","6",")">>) \o Dec(blklen) \o <<COLON>>
            part3 == Spaces(blklen) \o <<RPAREN>> \o Dec(enclen) \o <<COLON>>
            saltpos == Len(part1)
            ivpos == saltpos + Len(part2)
            encpos == ivpos + Len(part3)
        IN Overwrite(
             Overwrite(
               Overwrite(part1 \o part2 \o part3 \o Spaces(enclen) \o <<RPAREN>>,
                         saltpos, Span(rnd, 2 * blklen + 1, 2 * blklen + 8)),
               ivpos, Span(rnd, 1, blklen)),
             encpos, Span(encrypted, 1, enclen))
      \* lines 616-677; held: what the call holds, rc: the code so far
      filled(held, rc, key, outbuf) ==
        IF rc # OK THEN ret(rc, <<>>, Release(Release(held, {"hd"}), {"iv", "outbuf"}), 0)
        ELSE IF fail = "encrypt"
        THEN ret(CryptoBackend, <<>>,
                 Release(Release(held, {"hd"}), {"iv", "outbuf"}), Len(outbuf))
        ELSE IF fail = "asprintf"
        THEN ret(GNUPG_Out_Of_Core, <<>>,
                 Release(Release(held, {"hd"}), {"iv", "outbuf"}), Len(outbuf))
        ELSE ret(OK,
                 scaffold(gcry_cipher_encrypt(key, Span(rnd, 1, blklen),
                                              Span(outbuf, 1, enclen))
                          \o Span(outbuf, enclen + 1, outlen)),
                 Release(Release(held, {"hd"}), {"iv", "outbuf"}), Len(outbuf))
      \* lines 599-615
      keyed(held, hp) ==
        filled(held \cup Release({"key"} \cup hp.live, {"key"}),
               IF hp.rc # OK THEN hp.rc
               ELSE IF fail = "setkey" THEN CryptoBackend ELSE OK,
               hp.key,
               <<LPAREN, LPAREN>> \o Span(protbegin, 1, protlen)
               \o B(<<")","(","4",":","h","a","s","h","4",":","s","h","a","1","2","0",":">>)
               \o Span(sha1hash, 1, 20) \o <<RPAREN, RPAREN>>
               \o Span(rnd, blklen + 1, 2 * blklen))
  IN \* lines 569-572
     IF fail = "cipher_open" THEN ret(CryptoBackend, <<>>, {}, 0)
     \* lines 587-589
     ELSE IF fail = "malloc_outbuf"
     THEN filled({"hd"}, GNUPG_Out_Of_Core, <<>>, <<>>)
     \* lines 590-598
     ELSE IF fail = "random_iv"
     THEN filled({"hd", "outbuf"}, GNUPG_Out_Of_Core, <<>>, <<>>)
     ELSE IF fail = "setiv"
     THEN filled({"hd", "outbuf", "iv"}, CryptoBackend, <<>>, <<>>)
     ELSE IF fail = "malloc_key"
     THEN filled({"hd", "outbuf", "iv"}, GNUPG_Out_Of_Core, <<>>, <<>>)
     ELSE keyed({"hd", "outbuf", "iv"},
                hash_passphrase(passphrase, 3,
                                Span(rnd, 2 * blklen + 1, 2 * blklen + 8),
                                96, PROT_CIPHER_KEYLEN, fail))

\* a turn of the loop that takes every name of one character
protect_step_any_name(plainkey, info, st) ==
  LET bad == [st EXCEPT !.rc = GNUPG_Invalid_Sexp]
      closed(e) ==
        IF At(plainkey, e) # RPAREN THEN bad
        ELSE [rc |-> OK, s |-> e + 1, i |-> st.i + 1, depth |-> st.depth + 1 - 1,
              prot_begin |-> IF st.i = info.prot_from THEN st.s ELSE st.prot_begin,
              prot_end |-> IF st.i = info.prot_to THEN e ELSE st.prot_end]
      value(r2) == IF r2.n = 0 THEN bad ELSE closed(r2.s + r2.n)
      name(r1) ==
        IF r1.n = 0 THEN bad
        ELSE IF r1.n # 1 THEN bad
        ELSE value(snext(plainkey, r1.s + r1.n))
  IN CASE st.rc # OK \/ st.i >= Len(info.parmlist) -> st
       [] At(plainkey, st.s) # LPAREN -> bad
       [] OTHER -> name(snext(plainkey, st.s + 1))

\* a turn of the loop without the depth-- of line 745
protect_step_stays_deep(plainkey, info, st) ==
  LET bad == [st EXCEPT !.rc = GNUPG_Invalid_Sexp]
      closed(e) ==
        IF At(plainkey, e) # RPAREN THEN bad
        ELSE [rc |-> OK, s |-> e + 1, i |-> st.i + 1, depth |-> st.depth + 1,
              prot_begin |-> IF st.i = info.prot_from THEN st.s ELSE st.prot_begin,
              prot_end |-> IF st.i = info.prot_to THEN e ELSE st.prot_end]
      value(r2) == IF r2.n = 0 THEN bad ELSE closed(r2.s + r2.n)
      name(r1) ==
        IF r1.n = 0 THEN bad
        ELSE IF r1.n # 1 \/ info.parmlist[st.i + 1] # At(plainkey, r1.s) THEN bad
        ELSE value(snext(plainkey, r1.s + r1.n))
  IN CASE st.rc # OK \/ st.i >= Len(info.parmlist) -> st
       [] At(plainkey, st.s) # LPAREN -> bad
       [] OTHER -> name(snext(plainkey, st.s + 1))

\* one turn of the loop over protect_info[infidx].parmlist, lines 725-750:
\* st.i parameters are read, st.s is the read position; st.depth is depth
protect_step(plainkey, info, st) ==
  LET bad == [st EXCEPT !.rc = GNUPG_Invalid_Sexp]
      closed(e) ==
        IF At(plainkey, e) # RPAREN THEN bad
        ELSE [rc |-> OK, s |-> e + 1, i |-> st.i + 1, depth |-> st.depth + 1 - 1,
              prot_begin |-> IF st.i = info.prot_from THEN st.s ELSE st.prot_begin,
              prot_end |-> IF st.i = info.prot_to THEN e ELSE st.prot_end]
      value(r2) == IF r2.n = 0 THEN bad ELSE closed(r2.s + r2.n)
      name(r1) ==
        IF r1.n = 0 THEN bad
        ELSE IF r1.n # 1 \/ info.parmlist[st.i + 1] # At(plainkey, r1.s) THEN bad
        ELSE value(snext(plainkey, r1.s + r1.n))
  IN CASE st.rc # OK \/ st.i >= Len(info.parmlist) -> st
       [] At(plainkey, st.s) # LPAREN -> bad
       [] OTHER -> name(snext(plainkey, st.s + 1))

\* the loop, three turns at a time
RECURSIVE protect_parms(_, _, _)
protect_parms(plainkey, info, st) ==
  IF st.rc # OK \/ st.i >= Len(info.parmlist) THEN st
  ELSE protect_parms(plainkey, info,
                     protect_step(plainkey, info,
                       protect_step(plainkey, info,
                         protect_step(plainkey, info, st))))

\* the lookup of lines 719-721 without the smatch: the first entry is taken
find_algo_first(buf, s, n) == 1

\* index into protect_info of the entry whose algo matches, 0 when none does
find_algo(buf, s, n) ==
  IF \E x \in 1..Len(protect_info) : smatch(buf, s, n, protect_info[x].algo)
  THEN CHOOSE x \in 1..Len(protect_info) :
         /\ smatch(buf, s, n, protect_info[x].algo)
         /\ \A y \in 1..(x - 1) : ~smatch(buf, s, n, protect_info[y].algo)
  ELSE 0

\* no assert was reached, and nothing was encrypted
NoAsserts == [outbuf |-> TRUE, depth1 |-> TRUE, depth0 |-> TRUE, result |-> TRUE]

NoEnc == [protlen |-> 0, outlen |-> 0, enclen |-> 0, written |-> 0,
          protectedlen |-> 0, hash_begin |-> 0, hash_end |-> 0, hashed |-> <<>>]

\* set: the out parameters the call assigned ("result", "resultlen");
\* result = <<>> with "result" in set is the NULL pointer.  asserts: whether
\* each assert that was reached held; enc: the lengths do_encryption used.
agent_protect(plainkey, passphrase, rnd, fail) ==
  LET ret(rc) == [rc |-> rc, set |-> {}, result |-> <<>>, resultlen |-> 0,
                  live |-> {}, asserts |-> NoAsserts, enc |-> NoEnc]
      \* what the asserts of lines 631, 759, 763 and 794 saw
      seen_by(enc, depth1, depth0, p, resultlen) ==
        [outbuf |-> enc.written = 0 \/ enc.written = enc.outlen,
         depth1 |-> depth1 = 1, depth0 |-> depth0 = 0,
         result |-> Len(p) = resultlen]
      \* h: hash_begin, hash_end and the digest of line 765
      lens(enc, protlen, h) ==
        [protlen |-> protlen, outlen |-> enc.outlen, enclen |-> enc.enclen,
         written |-> enc.written, protectedlen |-> enc.resultlen,
         hash_begin |-> h.hash_begin, hash_end |-> h.hash_end, hashed |-> h.hashed]
      \* lines 776-796; p: the buffer as the memcpys fill it
      built(resultlen, enc, protlen, h, depth1, depth0, p) ==
        IF fail = "malloc_result"
        THEN [rc |-> GNUPG_Out_Of_Core, set |-> {"result", "resultlen"},
              result |-> <<>>, resultlen |-> resultlen,
              live |-> Release(enc.live \cup {"protected"}, {"protected"}),
              asserts |-> seen_by(enc, depth1, depth0, <<>>, 0),
              enc |-> lens(enc, protlen, h)]
        ELSE [rc |-> OK, set |-> {"result", "resultlen"},
              result |-> p, resultlen |-> resultlen,
              live |-> Release(enc.live \cup {"protected"}, {"protected"}),
              asserts |-> seen_by(enc, depth1, depth0, p, resultlen),
              enc |-> lens(enc, protlen, h)]
      \* lines 770-771
      encrypted(w, real_end, depth1, depth0, h, enc) ==
        IF enc.rc # OK
        THEN [ret(enc.rc) EXCEPT
                !.live = enc.live,
                !.asserts = seen_by(enc, depth1, depth0, <<>>, 0),
                !.enc = lens(enc, w.prot_end - w.prot_begin + 1, h)]
        ELSE built(10 + (w.prot_begin - 1) + enc.resultlen + (real_end - w.prot_end),
                   enc, w.prot_end - w.prot_begin + 1, h, depth1, depth0,
                   B(<<"(","2","1",":","p","r","o","t","e","c","t","e","d","-">>)
                   \o Span(plainkey, 5, w.prot_begin - 1)
                   \o Span(enc.result, 1, enc.resultlen)
                   \o Span(plainkey, w.prot_end + 1, real_end))
      \* lines 758-769
      skipped(hash_begin, w, sk) ==
        IF sk.rc # OK
        THEN [ret(sk.rc) EXCEPT !.asserts.depth1 = (w.depth - 1 = 1)]
        ELSE encrypted(w, sk.s - 1, w.depth - 1, sk.depth,
               [hash_begin |-> hash_begin, hash_end |-> w.s + 1,
                hashed |-> gcry_md_hash_buffer(Span(plainkey, hash_begin, w.s))],
               do_encryption(Span(plainkey, w.prot_begin, Len(plainkey)),
                             w.prot_end - w.prot_begin + 1, passphrase,
                             gcry_md_hash_buffer(Span(plainkey, hash_begin, w.s)),
                             rnd, fail))
      \* lines 751-757
      walked(hash_begin, w) ==
        IF w.rc # OK THEN ret(w.rc)
        ELSE IF At(plainkey, w.s) # RPAREN \/ w.prot_begin = 0 \/ w.prot_end = 0
        THEN ret(GNUPG_Invalid_Sexp)
        ELSE skipped(hash_begin, w, sskip(plainkey, w.s + 1, w.depth - 1))
      \* lines 725-750
      known(hash_begin, r2, info) ==
        walked(hash_begin,
               protect_parms(plainkey, info,
                             [rc |-> OK, s |-> r2.s + Len(info.algo), i |-> 0,
                              depth |-> 2, prot_begin |-> 0, prot_end |-> 0]))
      looked(hash_begin, r2, infidx) ==
        IF infidx = 0 THEN ret(GNUPG_Unsupported_Algorithm)
        ELSE known(hash_begin, r2, protect_info[infidx])
      \* lines 715-723
      algo(hash_begin, r2) ==
        IF r2.n = 0 THEN ret(GNUPG_Invalid_Sexp)
        ELSE looked(hash_begin, r2, find_algo(plainkey, r2.s, r2.n))
      \* lines 700-714
      top(r1) ==
        IF r1.n = 0 THEN ret(GNUPG_Invalid_Sexp)
        ELSE IF ~smatch(plainkey, r1.s, r1.n, TOK_private_key)
        THEN ret(GNUPG_Unknown_Sexp)
        ELSE IF At(plainkey, r1.s + Len(TOK_private_key)) # LPAREN
        THEN ret(GNUPG_Unknown_Sexp)
        ELSE algo(r1.s + Len(TOK_private_key),
                  snext(plainkey, r1.s + Len(TOK_private_key) + 1))
  IN IF At(plainkey, 1) # LPAREN THEN ret(GNUPG_Invalid_Sexp)
     ELSE top(snext(plainkey, 2))

(***************************************************************************)
(* do_decryption, merge_lists and agent_unprotect.  kind selects what a    *)
(* block deciphers to when it is not a block our cipher made under the     *)
(* derived key.                                                            *)
(***************************************************************************)
do_decryption(protected, protectedlen, passphrase, s2ksalt, s2kcount, iv, ivlen, kind, fail) ==
  LET ret(rc, held) == [rc |-> rc, result |-> <<>>,
                        live |-> Release(Release(held, {"hd"}), {"outbuf"})]
      \* lines 860-868; outbuf is handed to the caller
      checked(held, outbuf, reallen) ==
        IF reallen = 0 \/ reallen + blklen < protectedlen
        THEN ret(GNUPG_Bad_Passphrase, held)
        ELSE [rc |-> OK, result |-> outbuf,
              live |-> Release(held, {"hd"}) \ {"outbuf"}]
      \* lines 854-859
      deciphered(held, outbuf) ==
        IF outbuf[1] # LPAREN /\ outbuf[2] # LPAREN
        THEN ret(GNUPG_Bad_Passphrase, held)
        ELSE checked(held, outbuf, gcry_sexp_canon_len(outbuf, 1, protectedlen))
      \* lines 838-853
      keyed(held, hp) ==
        IF hp.rc # OK THEN ret(hp.rc, held)
        ELSE IF fail = "setkey" \/ fail = "decrypt" THEN ret(CryptoBackend, held)
        ELSE deciphered(held,
                        gcry_cipher_decrypt(hp.key, Span(iv, 1, ivlen),
                                            Span(protected, 1, protectedlen), kind))
      hashed(hp) ==
        keyed({"hd", "outbuf"} \cup Release({"key"} \cup hp.live, {"key"}), hp)
  IN IF protectedlen < 4 \/ protectedlen % blklen # 0
     THEN [rc |-> GNUPG_Corrupted_Protection, result |-> <<>>, live |-> {}]
     ELSE IF fail = "cipher_open"
     THEN [rc |-> CryptoBackend, result |-> <<>>, live |-> {}]
     \* lines 823-835
     ELSE IF fail = "malloc_outbuf" THEN ret(GNUPG_Out_Of_Core, {"hd"})
     ELSE IF fail = "setiv" THEN ret(CryptoBackend, {"hd", "outbuf"})
     ELSE IF fail = "malloc_key" THEN ret(GNUPG_Out_Of_Core, {"hd", "outbuf"})
     ELSE hashed(hash_passphrase(passphrase, 3, s2ksalt, s2kcount,
                                 PROT_CIPHER_KEYLEN, fail))

\* one turn of the walk over the parameter lists of the cleartext, lines 917-931: st.s is
\* the read position
merge_step(buf, st) ==
  LET bad == [rc |-> GNUPG_Invalid_Sexp, s |-> st.s, done |-> TRUE]
      value(r2) == IF r2.n = 0 THEN bad
                   ELSE IF At(buf, r2.s + r2.n) # RPAREN THEN bad
                   ELSE [st EXCEPT !.s = r2.s + r2.n + 1]
      name(r1) == IF r1.n = 0 THEN bad ELSE value(snext(buf, r1.s + r1.n))
  IN CASE st.done -> st
       [] At(buf, st.s) # LPAREN -> [st EXCEPT !.done = TRUE]
       [] OTHER -> name(snext(buf, st.s + 1))

\* the walk, three turns at a time
RECURSIVE merge_loop(_, _)
merge_loop(buf, st) ==
  IF st.done THEN st
  ELSE merge_loop(buf, merge_step(buf, merge_step(buf, merge_step(buf, st))))

merge_parms(buf, s) == merge_loop(buf, [rc |-> OK, s |-> s, done |-> FALSE])

\* replacepos is the offset of the protected list in protectedkey; live
\* names newlist when the call returns without having freed it
merge_lists(protectedkey, replacepos, cleartext, fail) ==
  LET ret(rc, live) == [rc |-> rc, sha1hash |-> <<>>, result |-> <<>>,
                        live |-> live, newlistlen |-> 0, written |-> 0]
      \* p - newlist behind lines 906-909
      head == 15 + (replacepos - 15 - 10)
      invalid == [ret(GNUPG_Invalid_Sexp, Release({"newlist"}, {"newlist"}))
                    EXCEPT !.written = head]
      startpos == 3
      \* lines 959-981: hs is where the stored hash starts, from where the
      \* rest of the protected key starts
      skip2(endpos, hs, from, k2) ==
        IF k2.rc # OK
        THEN [ret(k2.rc, Release({"newlist"}, {"newlist"}))
                EXCEPT !.written = head + (endpos - startpos)]
        ELSE [rc |-> OK,
              sha1hash |-> [i \in 1..20 |-> At(cleartext, hs + i - 1)],
              result |-> B(<<"(","1","1",":">>) \o TOK_private_key
                         \o Span(protectedkey, 15 + 10 + 1, replacepos)
                         \o Span(cleartext, startpos, endpos - 1)
                         \o Span(protectedkey, from, k2.s - 1),
              live |-> {}, newlistlen |-> 0,
              written |-> head + (endpos - startpos) + (k2.s - from)]
      skip1(endpos, hs, k1) ==
        IF k1.rc # OK
        THEN [ret(k1.rc, Release({"newlist"}, {"newlist"}))
                EXCEPT !.written = head + (endpos - startpos)]
        ELSE skip2(endpos, hs, k1.s, sskip(protectedkey, k1.s, 2))
      \* lines 939-953
      hash3(endpos, h3) ==
        IF h3.n # 20 \/ At(cleartext, h3.s + h3.n) # RPAREN THEN invalid
        ELSE skip1(endpos, h3.s, sskip(protectedkey, replacepos + 2, 1))
      hash2(endpos, h2) ==
        IF ~smatch(cleartext, h2.s, h2.n, TOK_sha1) THEN invalid
        ELSE hash3(endpos, snext(cleartext, h2.s + Len(TOK_sha1)))
      hash1(endpos, h1) ==
        IF ~smatch(cleartext, h1.s, h1.n, TOK_hash) THEN invalid
        ELSE hash2(endpos, snext(cleartext, h1.s + Len(TOK_hash)))
      \* lines 915-938
      walked(w) ==
        IF w.rc # OK THEN invalid
        ELSE IF At(cleartext, w.s) # RPAREN \/ At(cleartext, w.s + 1) # LPAREN
        THEN invalid
        ELSE hash1(w.s, snext(cleartext, w.s + 2))
      \* lines 894-914
      sized(len1, n1, r) ==
        IF len1 = 0 THEN ret(GNUPG_Bug, {})
        ELSE IF n1 = 0 THEN ret(GNUPG_Bug, {})
        ELSE IF fail = "malloc_newlist" THEN ret(GNUPG_Out_Of_Core, {})
        ELSE IF At(cleartext, 1) # LPAREN /\ At(cleartext, 2) # LPAREN
        THEN [ret(GNUPG_Bug, {"newlist"})
                EXCEPT !.newlistlen = len1 + n1, !.written = head]
        ELSE [r EXCEPT !.newlistlen = len1 + n1]
  IN IF replacepos < 26 THEN ret(GNUPG_Bug, {})
     ELSE sized(gcry_sexp_canon_len(protectedkey, 1, 0),
                gcry_sexp_canon_len(cleartext, 1, 0),
                walked(merge_parms(cleartext, startpos)))

\* a turn that takes any list for the one named protected
find_step_any_list(buf, st) ==
  LET stop(rc, s, prot_begin) ==
        [rc |-> rc, s |-> s, prot_begin |-> prot_begin, done |-> TRUE]
      named(r) ==
        IF r.n = 0 THEN stop(GNUPG_Invalid_Sexp, st.s, st.s)
        ELSE stop(OK, r.s + Len(TOK_protected), st.s)
  IN CASE st.done -> st
       [] At(buf, st.s) # LPAREN -> stop(GNUPG_Invalid_Sexp, st.s, 0)
       [] OTHER -> named(snext(buf, st.s + 1))

\* one turn of the search for the list named protected, lines 1040-1056:
\* st.s is the read position
find_step(buf, st) ==
  LET stop(rc, s, prot_begin) ==
        [rc |-> rc, s |-> s, prot_begin |-> prot_begin, done |-> TRUE]
      skipped(k) == IF k.rc # OK THEN stop(k.rc, st.s, st.s)
                    ELSE [st EXCEPT !.s = k.s]
      named(r) ==
        IF r.n = 0 THEN stop(GNUPG_Invalid_Sexp, st.s, st.s)
        ELSE IF smatch(buf, r.s, r.n, TOK_protected)
        THEN stop(OK, r.s + Len(TOK_protected), st.s)
        ELSE skipped(sskip(buf, r.s + r.n, 1))
  IN CASE st.done -> st
       [] At(buf, st.s) # LPAREN -> stop(GNUPG_Invalid_Sexp, st.s, 0)
       [] OTHER -> named(snext(buf, st.s + 1))

\* the search, three turns at a time
RECURSIVE find_loop(_, _)
find_loop(buf, st) ==
  IF st.done THEN st
  ELSE find_loop(buf, find_step(buf, find_step(buf, find_step(buf, st))))

find_protected(buf, s) ==
  find_loop(buf, [rc |-> OK, s |-> s, prot_begin |-> 0, done |-> FALSE])

\* strtoul (buf + s - 1, NULL, 10) on a digit string
RECURSIVE strtoul_scan(_, _, _)
strtoul_scan(buf, s, acc) ==
  IF digitp(At(buf, s)) THEN strtoul_scan(buf, s + 1, acc * 10 + atoi_1(At(buf, s)))
  ELSE acc

\* a strtoul that never returns zero
strtoul_nonzero(buf, s) == strtoul_scan(buf, s, 0) + 1

strtoul(buf, s) == strtoul_scan(buf, s, 0)

\* lines 1115-1117 without the memcmp
check_mic_unchecked(rc, sha1hash, sha1hash2) == rc

\* lines 1115-1117 reporting a mismatch as a wrong passphrase
check_mic_bad_passphrase(rc, sha1hash, sha1hash2) ==
  IF rc = OK /\ sha1hash # sha1hash2 THEN GNUPG_Bad_Passphrase ELSE rc

\* lines 1115-1117: rc is what calculate_mic returned
check_mic(rc, sha1hash, sha1hash2) ==
  IF rc = OK /\ sha1hash # sha1hash2 THEN GNUPG_Corrupted_Protection ELSE rc

\* merge_lists was not called
NoMerge == [made |-> FALSE, newlistlen |-> 0, written |-> 0]

\* the search of lines 1040-1056 was not reached
NoFind == [made |-> FALSE, rc |-> OK, prot_begin |-> 0]

\* merged, micok: what the call saw (the merged key parsed, its MIC matched);
\* find: how the search of lines 1040-1056 ended; merge: the bytes
\* merge_lists allocated and wrote
agent_unprotect(protectedkey, passphrase, kind, fail) ==
  LET ret(rc, live) == [rc |-> rc, set |-> {}, result |-> <<>>, resultlen |-> 0,
                        live |-> live, merged |-> FALSE, micok |-> FALSE,
                        find |-> NoFind, merge |-> NoMerge]
      bytes(from, n) == [i \in 1..n |-> At(protectedkey, from + i - 1)]
      \* lines 1115-1126
      compared(dec, m, mic, rc) ==
        IF rc # OK
        THEN [rc |-> rc, set |-> {}, result |-> <<>>, resultlen |-> 0,
              live |-> Release(dec.live \cup {"cleartext", "final"},
                               {"cleartext", "final"}),
              merged |-> mic.rc = OK, micok |-> m.sha1hash = mic.sha1hash,
              find |-> NoFind, merge |-> NoMerge]
        ELSE [rc |-> OK, set |-> {"result", "resultlen"}, result |-> m.result,
              resultlen |-> gcry_sexp_canon_len(m.result, 1, 0),
              live |-> Release(dec.live \cup {"cleartext"}, {"cleartext"}),
              merged |-> mic.rc = OK, micok |-> m.sha1hash = mic.sha1hash,
              find |-> NoFind, merge |-> NoMerge]
      miced(dec, m, mic) ==
        compared(dec, m, mic, check_mic(mic.rc, m.sha1hash, mic.sha1hash))
      \* lines 1109-1113
      merged(dec, m) ==
        [(IF m.rc # OK
          THEN ret(m.rc, Release(dec.live \cup {"cleartext"} \cup m.live,
                                 {"cleartext"}))
          ELSE miced(dec, m, calculate_mic(m.result)))
           EXCEPT !.merge = [made |-> TRUE, newlistlen |-> m.newlistlen,
                             written |-> m.written]]
      \* lines 1102-1110
      decrypted(prot_begin, dec) ==
        IF dec.rc # OK THEN ret(dec.rc, dec.live)
        ELSE merged(dec, merge_lists(protectedkey, prot_begin - 1, dec.result, fail))
      \* lines 1098-1105
      ctext(prot_begin, s2ksalt, s2kcount, iv, r8) ==
        IF r8.n = 0 THEN ret(GNUPG_Invalid_Sexp, {})
        ELSE decrypted(prot_begin,
                       do_decryption(bytes(r8.s, r8.n), r8.n, passphrase,
                                     bytes(s2ksalt, 8), s2kcount, bytes(iv, 16), 16,
                                     kind, fail))
      \* lines 1090-1097
      ivd(prot_begin, s2ksalt, s2kcount, r7) ==
        IF r7.n # 16 THEN ret(GNUPG_Corrupted_Protection, {})
        ELSE IF At(protectedkey, r7.s + r7.n) # RPAREN THEN ret(GNUPG_Invalid_Sexp, {})
        ELSE ctext(prot_begin, s2ksalt, s2kcount, r7.s,
                   snext(protectedkey, r7.s + r7.n + 1))
      \* lines 1071-1088
      counted(prot_begin, s2ksalt, r6, s2kcount) ==
        IF At(protectedkey, r6.s + r6.n) # RPAREN THEN ret(GNUPG_Invalid_Sexp, {})
        ELSE IF s2kcount = 0 THEN ret(GNUPG_Corrupted_Protection, {})
        ELSE ivd(prot_begin, s2ksalt, s2kcount,
                 snext(protectedkey, r6.s + r6.n + 1))
      count(prot_begin, s2ksalt, r6) ==
        IF r6.n = 0 THEN ret(GNUPG_Corrupted_Protection, {})
        ELSE counted(prot_begin, s2ksalt, r6, strtoul(protectedkey, r6.s))
      salt(prot_begin, r5) ==
        IF r5.n # 8 THEN ret(GNUPG_Corrupted_Protection, {})
        ELSE count(prot_begin, r5.s, snext(protectedkey, r5.s + r5.n))
      \* lines 1066-1070
      hashalg(prot_begin, r4) ==
        IF r4.n = 0 THEN ret(GNUPG_Invalid_Sexp, {})
        ELSE IF ~smatch(protectedkey, r4.s, r4.n, TOK_sha1)
        THEN ret(GNUPG_Unsupported_Protection, {})
        ELSE salt(prot_begin, snext(protectedkey, r4.s + Len(TOK_sha1)))
      \* lines 1058-1065
      mode(prot_begin, r3) ==
        IF r3.n = 0 THEN ret(GNUPG_Invalid_Sexp, {})
        ELSE IF ~smatch(protectedkey, r3.s, r3.n, modestr)
        THEN ret(GNUPG_Unsupported_Protection, {})
        ELSE IF \/ At(protectedkey, r3.s + Len(modestr)) # LPAREN
                \/ At(protectedkey, r3.s + Len(modestr) + 1) # LPAREN
        THEN ret(GNUPG_Invalid_Sexp, {})
        ELSE hashalg(prot_begin, snext(protectedkey, r3.s + Len(modestr) + 2))
      \* lines 1040-1057
      found(f) ==
        IF f.rc # OK
        THEN [ret(f.rc, {}) EXCEPT !.find = [made |-> TRUE, rc |-> f.rc,
                                             prot_begin |-> 0]]
        ELSE [mode(f.prot_begin, snext(protectedkey, f.s))
                EXCEPT !.find = [made |-> TRUE, rc |-> OK,
                                 prot_begin |-> f.prot_begin]]
      \* lines 1024-1032
      looked(r2, infidx) ==
        IF infidx = 0 THEN ret(GNUPG_Unsupported_Algorithm, {})
        ELSE found(find_protected(protectedkey,
                                  r2.s + Len(protect_info[infidx].algo)))
      algo(r2) ==
        IF r2.n = 0 THEN ret(GNUPG_Invalid_Sexp, {})
        ELSE looked(r2, find_algo(protectedkey, r2.s, r2.n))
      \* lines 1012-1023
      top(r1) ==
        IF r1.n = 0 THEN ret(GNUPG_Invalid_Sexp, {})
        ELSE IF ~smatch(protectedkey, r1.s, r1.n, TOK_protected_private_key)
        THEN ret(GNUPG_Unknown_Sexp, {})
        ELSE IF At(protectedkey, r1.s + Len(TOK_protected_private_key)) # LPAREN
        THEN ret(GNUPG_Unknown_Sexp, {})
        ELSE algo(snext(protectedkey, r1.s + Len(TOK_protected_private_key) + 1))
  IN IF At(protectedkey, 1) # LPAREN THEN ret(GNUPG_Invalid_Sexp, {})
     ELSE top(snext(protectedkey, 2))

(***************************************************************************)
(* agent_private_key_type, agent_shadow_key, agent_get_shadow_info         *)
(***************************************************************************)
PRIVATE_KEY_UNKNOWN == "Unknown"

PRIVATE_KEY_CLEAR == "Plain"

PRIVATE_KEY_PROTECTED == "Protected"

PRIVATE_KEY_SHADOWED == "Shadowed"

agent_private_key_type(privatekey) ==
  LET named(r) ==
        IF r.n = 0 THEN PRIVATE_KEY_UNKNOWN
        ELSE IF smatch(privatekey, r.s, r.n, TOK_protected_private_key)
        THEN PRIVATE_KEY_PROTECTED
        ELSE IF smatch(privatekey, r.s, r.n, TOK_shadowed_private_key)
        THEN PRIVATE_KEY_SHADOWED
        ELSE IF smatch(privatekey, r.s, r.n, TOK_private_key)
        THEN PRIVATE_KEY_CLEAR
        ELSE PRIVATE_KEY_UNKNOWN
  IN IF At(privatekey, 1) # LPAREN THEN PRIVATE_KEY_UNKNOWN
     ELSE named(snext(privatekey, 2))

\* a walk that stops where it starts, before the first parameter list
shadow_parms_none(buf, s) == [rc |-> OK, s |-> s]

\* the walk over the parameter lists, lines 1279-1297; s ends on the ')'
RECURSIVE shadow_parms(_, _)
shadow_parms(buf, s) ==
  LET bad == [rc |-> GNUPG_Invalid_Sexp, s |-> s]
      value(r2) == IF r2.n = 0 THEN bad
                   ELSE IF At(buf, r2.s + r2.n) # RPAREN THEN bad
                   ELSE shadow_parms(buf, r2.s + r2.n + 1)
      name(r1) == IF r1.n = 0 THEN bad ELSE value(snext(buf, r1.s + r1.n))
  IN IF At(buf, s) = RPAREN THEN [rc |-> OK, s |-> s]
     ELSE IF At(buf, s) # LPAREN THEN bad
     ELSE name(snext(buf, s + 1))

\* n: the size of the allocation; result = <<>> with "result" in set is NULL
\* an agent_shadow_key that allocates for the atoms and not for the parens
\* and length prefixes around them
agent_shadow_key_tight(pubkey, shadow_info, fail) ==
  LET ret(rc) == [rc |-> rc, set |-> {}, result |-> <<>>, n |-> 0, live |-> {}]
      \* lines 1298-1320; w.s is point, where the shadowed list is inserted
      walked(pubkey_len, shadow_info_len, w) ==
        IF w.rc # OK THEN ret(w.rc)
        ELSE IF fail = "malloc_result"
        THEN [rc |-> GNUPG_Out_Of_Core, set |-> {"result"}, result |-> <<>>,
              n |-> 12 + pubkey_len + 3 + 8 + 5 + shadow_info_len,
              live |-> {}]
        ELSE [rc |-> OK, set |-> {"result"},
              result |-> B(<<"(","2","0",":">>) \o TOK_shadowed_private_key
                         \o Span(pubkey, 15, w.s - 1)
                         \o B(<<"(","8",":">>) \o TOK_shadowed
                         \o B(<<"5",":">>) \o TOK_t1_v1
                         \o Span(shadow_info, 1, shadow_info_len)
                         \o <<RPAREN>>
                         \o Span(pubkey, w.s, pubkey_len),
              n |-> 12 + pubkey_len + 3 + 8 + 5 + shadow_info_len,
              live |-> {}]
      \* lines 1274-1297
      algo(pubkey_len, shadow_info_len, r2) ==
        IF r2.n = 0 THEN ret(GNUPG_Invalid_Sexp)
        ELSE walked(pubkey_len, shadow_info_len, shadow_parms(pubkey, r2.s + r2.n))
      \* lines 1260-1273
      top(pubkey_len, shadow_info_len, r1) ==
        IF r1.n = 0 THEN ret(GNUPG_Invalid_Sexp)
        ELSE IF ~smatch(pubkey, r1.s, r1.n, TOK_public_key)
        THEN ret(GNUPG_Unknown_Sexp)
        ELSE IF At(pubkey, r1.s + Len(TOK_public_key)) # LPAREN
        THEN ret(GNUPG_Unknown_Sexp)
        ELSE algo(pubkey_len, shadow_info_len,
                  snext(pubkey, r1.s + Len(TOK_public_key) + 1))
      \* lines 1255-1259
      sized(pubkey_len, shadow_info_len) ==
        IF pubkey_len = 0 \/ shadow_info_len = 0 THEN ret(GNUPG_Invalid_Value)
        ELSE IF At(pubkey, 1) # LPAREN THEN ret(GNUPG_Invalid_Sexp)
        ELSE top(pubkey_len, shadow_info_len, snext(pubkey, 2))
  IN sized(gcry_sexp_canon_len(pubkey, 1, 0), gcry_sexp_canon_len(shadow_info, 1, 0))

agent_shadow_key(pubkey, shadow_info, fail) ==
  LET ret(rc) == [rc |-> rc, set |-> {}, result |-> <<>>, n |-> 0, live |-> {}]
      \* lines 1298-1320; w.s is point, where the shadowed list is inserted
      walked(pubkey_len, shadow_info_len, w) ==
        IF w.rc # OK THEN ret(w.rc)
        ELSE IF fail = "malloc_result"
        THEN [rc |-> GNUPG_Out_Of_Core, set |-> {"result"}, result |-> <<>>,
              n |-> 12 + pubkey_len + 1 + 3 + 8 + 2 + 5 + shadow_info_len + 1,
              live |-> {}]
        ELSE [rc |-> OK, set |-> {"result"},
              result |-> B(<<"(","2","0",":">>) \o TOK_shadowed_private_key
                         \o Span(pubkey, 15, w.s - 1)
                         \o B(<<"(","8",":">>) \o TOK_shadowed
                         \o B(<<"5",":">>) \o TOK_t1_v1
                         \o Span(shadow_info, 1, shadow_info_len)
                         \o <<RPAREN>>
                         \o Span(pubkey, w.s, pubkey_len),
              n |-> 12 + pubkey_len + 1 + 3 + 8 + 2 + 5 + shadow_info_len + 1,
              live |-> {}]
      \* lines 1274-1297
      algo(pubkey_len, shadow_info_len, r2) ==
        IF r2.n = 0 THEN ret(GNUPG_Invalid_Sexp)
        ELSE walked(pubkey_len, shadow_info_len, shadow_parms(pubkey, r2.s + r2.n))
      \* lines 1260-1273
      top(pubkey_len, shadow_info_len, r1) ==
        IF r1.n = 0 THEN ret(GNUPG_Invalid_Sexp)
        ELSE IF ~smatch(pubkey, r1.s, r1.n, TOK_public_key)
        THEN ret(GNUPG_Unknown_Sexp)
        ELSE IF At(pubkey, r1.s + Len(TOK_public_key)) # LPAREN
        THEN ret(GNUPG_Unknown_Sexp)
        ELSE algo(pubkey_len, shadow_info_len,
                  snext(pubkey, r1.s + Len(TOK_public_key) + 1))
      \* lines 1255-1259
      sized(pubkey_len, shadow_info_len) ==
        IF pubkey_len = 0 \/ shadow_info_len = 0 THEN ret(GNUPG_Invalid_Value)
        ELSE IF At(pubkey, 1) # LPAREN THEN ret(GNUPG_Invalid_Sexp)
        ELSE top(pubkey_len, shadow_info_len, snext(pubkey, 2))
  IN sized(gcry_sexp_canon_len(pubkey, 1, 0), gcry_sexp_canon_len(shadow_info, 1, 0))

\* a search that takes the first list, whatever its name
find_shadowed_first(buf, s) ==
  IF At(buf, s) # LPAREN THEN [rc |-> GNUPG_Invalid_Sexp, s |-> s]
  ELSE [rc |-> OK, s |-> snext(buf, s + 1).s + snext(buf, s + 1).n]

\* the search for the list named shadowed, lines 1352-1374
RECURSIVE find_shadowed(_, _)
find_shadowed(buf, s) ==
  LET bad == [rc |-> GNUPG_Invalid_Sexp, s |-> s]
      value(r2) == IF r2.n = 0 THEN bad
                   ELSE IF At(buf, r2.s + r2.n) # RPAREN THEN bad
                   ELSE find_shadowed(buf, r2.s + r2.n + 1)
      name(r1) == IF r1.n = 0 THEN bad
                  ELSE IF smatch(buf, r1.s, r1.n, TOK_shadowed)
                  THEN [rc |-> OK, s |-> r1.s + Len(TOK_shadowed)]
                  ELSE value(snext(buf, r1.s + r1.n))
  IN IF At(buf, s) = RPAREN THEN [rc |-> GNUPG_Unknown_Sexp, s |-> s]
     ELSE IF At(buf, s) # LPAREN THEN bad
     ELSE name(snext(buf, s + 1))

\* shadow_info: the index in shadowkey the returned pointer refers to
agent_get_shadow_info(shadowkey) ==
  LET ret(rc) == [rc |-> rc, set |-> {}, shadow_info |-> 0]
      \* lines 1375-1387
      protocol(r3) ==
        IF r3.n = 0 THEN ret(GNUPG_Invalid_Sexp)
        ELSE IF ~smatch(shadowkey, r3.s, r3.n, TOK_t1_v1)
        THEN ret(GNUPG_Unsupported_Protocol)
        ELSE IF At(shadowkey, r3.s + Len(TOK_t1_v1)) # LPAREN
        THEN ret(GNUPG_Invalid_Sexp)
        ELSE [rc |-> OK, set |-> {"shadow_info"},
              shadow_info |-> r3.s + Len(TOK_t1_v1)]
      found(f) == IF f.rc # OK THEN ret(f.rc) ELSE protocol(snext(shadowkey, f.s))
      \* lines 1347-1374
      algo(r2) == IF r2.n = 0 THEN ret(GNUPG_Invalid_Sexp)
                  ELSE found(find_shadowed(shadowkey, r2.s + r2.n))
      \* lines 1333-1346
      top(r1) ==
        IF r1.n = 0 THEN ret(GNUPG_Invalid_Sexp)
        ELSE IF ~smatch(shadowkey, r1.s, r1.n, TOK_shadowed_private_key)
        THEN ret(GNUPG_Unknown_Sexp)
        ELSE IF At(shadowkey, r1.s + Len(TOK_shadowed_private_key)) # LPAREN
        THEN ret(GNUPG_Unknown_Sexp)
        ELSE algo(snext(shadowkey, r1.s + Len(TOK_shadowed_private_key) + 1))
  IN IF At(shadowkey, 1) # LPAREN THEN ret(GNUPG_Invalid_Sexp)
     ELSE top(snext(shadowkey, 2))

(***************************************************************************)
(* keyboxd: kbxd_search and the SEARCH and NEXT commands of one connection *)
(***************************************************************************)
GPG_ERR_NO_ERROR == "NoError"

GPG_ERR_INV_ARG == "InvArg"

GPG_ERR_NOTHING_FOUND == "NothingFound"

GPG_ERR_NOT_FOUND == "NotFound"

GPG_ERR_EOF == "Eof"

GPG_ERR_INV_USER_ID == "InvUserId"

GPG_ERR_ENOMEM == "Enomem"

GPG_ERR_GENERAL == "General"

DB_TYPE_NONE == "none"

DB_TYPE_KBX == "kbx"

\* the table of databases: two keyboxes and an empty slot between them
databases == <<DB_TYPE_KBX, DB_TYPE_NONE, DB_TYPE_KBX>>

no_of_databases == Len(databases)

\* ctrl->opgp_req before kbxd_search allocated it, and as xtrycalloc makes it
NullRequest == [allocated |-> FALSE, any_search |-> FALSE, any_found |-> FALSE,
                next_dbidx |-> 0]

ZeroRequest == [NullRequest EXCEPT !.allocated = TRUE]

\* desc == NULL: a call that only resets
NoDesc == <<>>

\* lines 239-261: the reset of every database; env.reset[i] is what
\* be_kbx_search returns for slot i.  The first error ends the loop.
\* resets: the slots whose backend was called, in the order of the calls.
RECURSIVE kbx_reset(_, _, _)
kbx_reset(env, dbidx, resets) ==
  CASE dbidx >= no_of_databases -> [err |-> GPG_ERR_NO_ERROR, resets |-> resets]
    [] databases[dbidx + 1] = DB_TYPE_NONE -> kbx_reset(env, dbidx + 1, resets)
    [] env.reset[dbidx + 1] # GPG_ERR_NO_ERROR ->
         [err |-> env.reset[dbidx + 1], resets |-> Append(resets, dbidx)]
    [] OTHER -> kbx_reset(env, dbidx + 1, Append(resets, dbidx))

\* lines 275-277: the next non-empty slot from dbidx on
RECURSIVE kbx_skip_empty(_)
kbx_skip_empty(dbidx) ==
  IF dbidx < no_of_databases /\ databases[dbidx + 1] = DB_TYPE_NONE
  THEN kbx_skip_empty(dbidx + 1)
  ELSE dbidx

\* a next_db that moves on after every error of a backend, not only after EOF
RECURSIVE kbx_next_db_any_error(_, _, _)
kbx_next_db_any_error(env, request, calls) ==
  LET at(dbidx) ==
        IF ~(dbidx < no_of_databases)
        THEN [err |-> GPG_ERR_NOT_FOUND, calls |-> calls,
              opgp_req |-> [request EXCEPT !.next_dbidx = dbidx]]
        ELSE IF env.search[dbidx + 1] # GPG_ERR_NO_ERROR
        THEN kbx_next_db_any_error(env,
                         [request EXCEPT !.next_dbidx = dbidx + 1,
                                         !.any_search = TRUE],
                         Append(calls, [dbidx |-> dbidx,
                                        err |-> env.search[dbidx + 1]]))
        ELSE [err |-> env.search[dbidx + 1],
              calls |-> Append(calls, [dbidx |-> dbidx,
                                       err |-> env.search[dbidx + 1]]),
              opgp_req |-> [request EXCEPT
                              !.next_dbidx = dbidx, !.any_search = TRUE,
                              !.any_found = TRUE]]
  IN at(kbx_skip_empty(request.next_dbidx))

\* lines 273-312: env.search[i] is what be_kbx_search returns for slot i.
\* calls: the searches of backends made, in order, each with what it returned.
RECURSIVE kbx_next_db(_, _, _)
kbx_next_db(env, request, calls) ==
  LET at(dbidx) ==
        IF ~(dbidx < no_of_databases)
        THEN [err |-> GPG_ERR_NOT_FOUND, calls |-> calls,
              opgp_req |-> [request EXCEPT !.next_dbidx = dbidx]]
        ELSE IF env.search[dbidx + 1] = GPG_ERR_EOF
        THEN kbx_next_db(env, [request EXCEPT !.next_dbidx = dbidx + 1,
                                              !.any_search = TRUE],
                         Append(calls, [dbidx |-> dbidx, err |-> GPG_ERR_EOF]))
        ELSE [err |-> env.search[dbidx + 1],
              calls |-> Append(calls, [dbidx |-> dbidx,
                                       err |-> env.search[dbidx + 1]]),
              opgp_req |-> [request EXCEPT
                              !.next_dbidx = dbidx, !.any_search = TRUE,
                              !.any_found = @ \/ env.search[dbidx + 1] = GPG_ERR_NO_ERROR]]
  IN at(kbx_skip_empty(request.next_dbidx))

\* kbxd_search (ctrl, desc, ndesc, reset).  resets and calls: the calls of
\* be_kbx_search made, to reset and to search.
kbxd_search(opgp_req, desc, ndesc, reset, env) ==
  LET found(request, resets, k) ==
        [err |-> k.err, opgp_req |-> k.opgp_req, resets |-> resets,
         calls |-> k.calls]
      \* lines 262-269 and 273
      begun(request, resets) ==
        IF desc = NoDesc
        THEN [err |-> GPG_ERR_NO_ERROR, opgp_req |-> request,
              resets |-> resets, calls |-> <<>>]
        ELSE found(request, resets, kbx_next_db(env, request, <<>>))
      \* lines 238-261
      reset_done(request, r) ==
        IF r.err # GPG_ERR_NO_ERROR
        THEN [err |-> r.err, opgp_req |-> request, resets |-> r.resets,
              calls |-> <<>>]
        ELSE begun(ZeroRequest, r.resets)
      have(request) ==
        IF desc = NoDesc \/ reset THEN reset_done(request, kbx_reset(env, 0, <<>>))
        ELSE begun(request, <<>>)
  IN IF ~opgp_req.allocated /\ env.fail = "calloc_request"
     THEN [err |-> GPG_ERR_ENOMEM, opgp_req |-> opgp_req, resets |-> <<>>,
           calls |-> <<>>]
     ELSE have(IF opgp_req.allocated THEN opgp_req ELSE ZeroRequest)

\* a KEYBOX_SEARCH_DESC is named by the pattern it was made from; xtrycalloc
\* makes descriptions of no pattern
ZeroDesc == <<>>

ZeroDescs(n) == [i \in 1..n |-> ZeroDesc]

\* ctrl->server_local as xtrycalloc makes it, line 855
ZeroServerLocal ==
  [search_expecting_more |-> FALSE, search_any_found |-> FALSE,
   search_desc |-> ZeroDesc, multi_search_desc |-> <<>>,
   multi_search_desc_size |-> 0, multi_search_desc_len |-> 0]

\* the patterns kbxd_search is handed, lines 617-621 and 663-667
descs_in_use(sl) ==
  IF sl.multi_search_desc_len # 0
  THEN SubSeq(sl.multi_search_desc, 1, sl.multi_search_desc_len)
  ELSE <<sl.search_desc>>

\* cmd_search: line is what skip_options leaves, line.text the pattern and
\* line.valid whether classify_user_id accepts it.  searched: the call of
\* kbxd_search made, if any.  The option --no-data sets ctrl->no_data_return
\* for the time of the command only (lines 616 and 632); the backend reads it
\* when it returns a key, no code here does.
cmd_search(sl, opgp_req, opt_more, line, env) ==
  LET \* lines 628-632
      leave(s, r, err, searched) ==
        [err |-> err,
         server_local |-> IF err # GPG_ERR_NO_ERROR
                          THEN [s EXCEPT !.multi_search_desc_len = 0] ELSE s,
         opgp_req |-> r, searched |-> searched]
      \* lines 616-626
      done(s, k, descs) ==
        leave([s EXCEPT !.search_any_found = (k.err = GPG_ERR_NO_ERROR)],
              k.opgp_req, k.err,
              <<[desc |-> descs, reset |-> TRUE]>>)
      run(s) ==
        done(s, kbxd_search(opgp_req, descs_in_use(s), Len(descs_in_use(s)),
                            TRUE, env),
             descs_in_use(s))
      \* lines 600-611
      stored(s) ==
        IF opt_more
        THEN leave([s EXCEPT !.search_expecting_more = TRUE], opgp_req,
                   GPG_ERR_NO_ERROR, <<>>)
        ELSE run([s EXCEPT !.search_expecting_more = FALSE])
      store(s) ==
        stored([s EXCEPT !.multi_search_desc[s.multi_search_desc_len + 1] =
                           s.search_desc,
                         !.multi_search_desc_len = @ + 1])
      \* lines 583-598
      grown(s) ==
        IF s.multi_search_desc_len # s.multi_search_desc_size THEN store(s)
        ELSE IF env.fail = "calloc_desc"
        THEN leave(s, opgp_req, GPG_ERR_ENOMEM, <<>>)
        ELSE store([s EXCEPT !.multi_search_desc = @ \o ZeroDescs(10),
                             !.multi_search_desc_size = @ + 10])
      \* lines 569-581
      alloc(s) ==
        IF s.multi_search_desc_size # 0 THEN grown(s)
        ELSE IF env.fail = "calloc_desc"
        THEN leave(s, opgp_req, GPG_ERR_ENOMEM, <<>>)
        ELSE grown([s EXCEPT !.multi_search_desc = ZeroDescs(10),
                             !.multi_search_desc_size = 10])
      \* lines 560-615
      classified(s) ==
        IF opt_more \/ s.search_expecting_more THEN alloc(s)
        ELSE run([s EXCEPT !.multi_search_desc_len = 0])
      \* lines 547-562
      entered(s) ==
        IF line.text = <<>> /\ opt_more
        THEN leave(s, opgp_req, GPG_ERR_INV_ARG, <<>>)
        ELSE IF line.text = <<>> /\ s.search_expecting_more
        THEN leave(s, opgp_req, GPG_ERR_INV_ARG, <<>>)
        ELSE IF ~line.valid
        THEN leave([s EXCEPT !.search_desc = ZeroDesc], opgp_req,
                   GPG_ERR_INV_USER_ID, <<>>)
        ELSE classified([s EXCEPT !.search_desc = line.text])
  IN entered([sl EXCEPT !.search_any_found = FALSE])

\* a cmd_next that does not look at search_any_found
cmd_next_ungated(sl, opgp_req, args, env) ==
  LET done(k) ==
        [err |-> k.err, server_local |-> sl, opgp_req |-> k.opgp_req,
         searched |-> <<[desc |-> descs_in_use(sl), reset |-> FALSE]>>]
  IN IF args
     THEN [err |-> GPG_ERR_INV_ARG, server_local |-> sl, opgp_req |-> opgp_req,
           searched |-> <<>>]
     ELSE done(kbxd_search(opgp_req, descs_in_use(sl), Len(descs_in_use(sl)),
                           FALSE, env))

\* cmd_next: args is whether anything follows the options
cmd_next(sl, opgp_req, args, env) ==
  LET done(k) ==
        [err |-> k.err, server_local |-> sl, opgp_req |-> k.opgp_req,
         searched |-> <<[desc |-> descs_in_use(sl), reset |-> FALSE]>>]
  IN IF args
     THEN [err |-> GPG_ERR_INV_ARG, server_local |-> sl, opgp_req |-> opgp_req,
           searched |-> <<>>]
     ELSE IF ~sl.search_any_found
     THEN [err |-> GPG_ERR_NOTHING_FOUND, server_local |-> sl,
           opgp_req |-> opgp_req, searched |-> <<>>]
     ELSE done(kbxd_search(opgp_req, descs_in_use(sl), Len(descs_in_use(sl)),
                           FALSE, env))

(***************************************************************************)
(* The callers' side: the buffers handed to the operations                 *)
(***************************************************************************)
\* longest value of the parameter d, in bytes
MaxValLen == 3

\* bits an attacker flips in a stored ciphertext byte: 0 .. MaxFlipBit
MaxFlipBit == 1

Atom(t) == Dec(Len(t)) \o <<COLON>> \o t

List(t) == <<LPAREN>> \o t \o <<RPAREN>>

Parm(name, value) == List(Atom(name) \o Atom(value))

Ch(c) == B(<<c>>)

Opaque(n) == [i \in 1..n |-> [v |-> i]]

\* (private-key (rsa (n x)(e y)(d ...)(p a)(q b)(u c))) with a d of vlen
\* bytes, and its variations
PlainKey(vlen, variant) ==
  LET n == Parm(Ch("n"), Ch("x"))
      e == Parm(Ch("e"), Ch("y"))
      d == Parm(Ch("d"), Opaque(vlen))
      pp == Parm(Ch("p"), B(<<"a","a","a","a","a","a">>))
      q == Parm(Ch("q"), Ch("b"))
      u == Parm(Ch("u"), Ch("c"))
      std == n \o e \o d \o pp \o q \o u
      trailer == List(Atom(B(<<"u","r","i">>)) \o Atom(B(<<"h","t","t","p">>)))
  IN CASE variant = "plain" ->
            List(Atom(TOK_private_key) \o List(Atom(TOK_rsa) \o std))
       [] variant = "trailer" ->
            List(Atom(TOK_private_key) \o List(Atom(TOK_rsa) \o std) \o trailer)
       [] variant = "zero_top" ->
            List(<<Lit(48)>> \o Atom(TOK_private_key) \o List(Atom(TOK_rsa) \o std))
       [] variant = "zero_parm" ->
            List(Atom(TOK_private_key)
                 \o List(Atom(TOK_rsa)
                         \o List(Atom(Ch("n")) \o <<Lit(48)>> \o Atom(Ch("x")))
                         \o e \o d \o pp \o q \o u))
       [] variant = "dsa" ->
            List(Atom(TOK_private_key) \o List(Atom(TOK_dsa) \o std))
       [] variant = "public" ->
            List(Atom(TOK_public_key) \o List(Atom(TOK_rsa) \o n \o e))
       [] variant = "public_dsa" ->
            List(Atom(TOK_public_key) \o List(Atom(TOK_dsa) \o n \o e))
       [] variant = "zero_prot" ->
            List(Atom(TOK_private_key)
                 \o List(Atom(TOK_rsa) \o n \o e \o d \o pp
                         \o List(Atom(Ch("q")) \o <<Lit(48)>> \o Atom(Ch("b")))
                         \o u))
       [] variant = "swapped" ->
            List(Atom(TOK_private_key)
                 \o List(Atom(TOK_rsa) \o n \o e \o d \o q \o pp \o u))
       [] variant = "wrong_name" ->
            List(Atom(TOK_private_key)
                 \o List(Atom(TOK_rsa) \o n \o e \o d \o pp \o q
                         \o Parm(Ch("v"), Ch("c"))))
       [] variant = "long_name" ->
            List(Atom(TOK_private_key)
                 \o List(Atom(TOK_rsa) \o n \o Parm(B(<<"e","e">>), Ch("y"))
                         \o d \o pp \o q \o u))
       [] variant = "missing" ->
            List(Atom(TOK_private_key)
                 \o List(Atom(TOK_rsa) \o n \o e \o d \o pp \o q))
       [] variant = "extra" ->
            List(Atom(TOK_private_key)
                 \o List(Atom(TOK_rsa) \o std \o Parm(Ch("v"), Ch("z"))))
       [] variant = "no_value" ->
            List(Atom(TOK_private_key)
                 \o List(Atom(TOK_rsa) \o n \o e \o d \o pp
                         \o List(Atom(Ch("q"))) \o u))
       [] variant = "two_values" ->
            List(Atom(TOK_private_key)
                 \o List(Atom(TOK_rsa) \o n \o e \o d
                         \o List(Atom(Ch("p")) \o Atom(Ch("a")) \o Atom(Ch("a")))
                         \o q \o u))
       [] variant = "list_value" ->
            List(Atom(TOK_private_key)
                 \o List(Atom(TOK_rsa) \o n \o List(Atom(Ch("e")) \o List(Atom(Ch("y"))))
                         \o d \o pp \o q \o u))
       [] variant = "open_end" ->
            List(Atom(TOK_private_key)
                 \o <<LPAREN>> \o Atom(TOK_rsa) \o std \o Atom(Ch("z")) \o <<RPAREN>>)

\* the variations that differ in the parameter lists only
WalkVariants == {"swapped", "wrong_name", "long_name", "missing", "extra",
                 "no_value", "two_values", "list_value", "open_end"}

KeyVariants == {"trailer", "zero_top", "zero_parm", "zero_prot", "dsa", "public",
                "public_dsa"}
               \cup WalkVariants

PlainKeys == {PlainKey(v, "plain") : v \in 1..MaxValLen}
             \cup {PlainKey(1, x) : x \in KeyVariants}

Passphrases == {B(<<"a","b">>), B(<<"x","y","z">>)}

\* what gcry_random_bytes returns: any bytes
RandomFlavours == {"opaque", "paren"}

Rnd(flavour) ==
  [i \in 1..(2 * blklen + 8) |-> IF flavour = "paren" THEN RPAREN ELSE [r |-> i]]

ProtectFailures == {"none", "cipher_open", "malloc_outbuf", "random_iv", "setiv",
                    "malloc_key", "md_open", "setkey", "encrypt", "asprintf",
                    "malloc_result"}

UnprotectFailures == {"none", "cipher_open", "malloc_outbuf", "setiv",
                      "malloc_key", "md_open", "setkey", "decrypt",
                      "malloc_newlist"}

ShadowFailures == {"none", "malloc_result"}

\* (public-key (rsa (n x)(e y))) and its variations
PubKey(variant) ==
  LET n == Parm(Ch("n"), Ch("x"))
      e == Parm(Ch("e"), Ch("y"))
  IN CASE variant = "plain" ->
            List(Atom(TOK_public_key) \o List(Atom(TOK_rsa) \o n \o e))
       [] variant = "trailer" ->
            List(Atom(TOK_public_key) \o List(Atom(TOK_rsa) \o n \o e)
                 \o List(Atom(B(<<"u","r","i">>)) \o Atom(B(<<"h","t","t","p">>))))
       [] variant = "named_shadowed" ->
            List(Atom(TOK_public_key)
                 \o List(Atom(TOK_rsa) \o n \o Parm(TOK_shadowed, Ch("y"))))
       [] variant = "no_parms" ->
            List(Atom(TOK_public_key) \o List(Atom(TOK_rsa)))
       [] variant = "private" ->
            List(Atom(TOK_private_key) \o List(Atom(TOK_rsa) \o n \o e))
       [] variant = "nested" ->
            List(Atom(TOK_public_key) \o List(Atom(TOK_rsa) \o List(n) \o e))
       [] variant = "unclosed" ->
            <<LPAREN>> \o Atom(TOK_public_key) \o List(Atom(TOK_rsa) \o n \o e)

PubKeys == {PubKey(x) : x \in {"plain", "trailer", "named_shadowed", "no_parms",
                               "private", "nested", "unclosed"}}

\* (card-s/n 12345), ((a b)), and a buffer that is no S-expression
ShadowInfos ==
  { List(Atom(B(<<"c","a","r","d","-","s","/","n">>))
         \o Atom(B(<<"1","2","3","4","5">>))),
    List(List(Atom(Ch("a")) \o Atom(Ch("b")))),
    Atom(Ch("a")) }

\* bytes no cipher of ours made
Foreign(n) == [i \in 1..n |-> [r |-> i]]

\* a protected key as a caller reads it from a file, f naming the atoms of
\* its header and of its protected list:
\* (<top> (<algo> (n x)(e y)
\*    (protected <mode> ((<hash> <salt> <count>) <iv>) <ctext>)))
ProtectedKey(f) ==
  List(Atom(f.top)
       \o List(Atom(f.algo) \o Parm(Ch("n"), Ch("x")) \o Parm(Ch("e"), Ch("y"))
               \o List(Atom(TOK_protected) \o Atom(f.mode)
                       \o List(List(Atom(f.hash) \o Atom(f.salt) \o Atom(f.count))
                               \o Atom(f.iv))
                       \o Atom(f.ctext))))

\* the form agent_unprotect accepts up to the decryption
GoodForm ==
  [top |-> TOK_protected_private_key, algo |-> TOK_rsa, mode |-> modestr,
   hash |-> TOK_sha1, salt |-> Foreign(8), count |-> B(<<"9","6">>),
   iv |-> Foreign(blklen), ctext |-> Foreign(2 * blklen)]

\* what each atom may hold instead
FormChoices ==
  [top : {GoodForm.top, TOK_private_key},
   algo : {GoodForm.algo, TOK_dsa},
   mode : {GoodForm.mode,
           B(<<"o","p","e","n","p","g","p","-","s","2","k","3","-","s","h","a","1",
               "-","d","e","s","-","c","b","c">>),
           B(<<"o","p","e","n","p","g","p","-","n","a","t","i","v","e">>)},
   hash : {GoodForm.hash, B(<<"s","h","a","2">>), <<>>},
   salt : {GoodForm.salt, Foreign(7)},
   count : {GoodForm.count, B(<<"0">>), B(<<"0","0">>)},
   iv : {GoodForm.iv, Foreign(blklen - 1)},
   ctext : {GoodForm.ctext, Foreign(blklen + 8), Foreign(3)}]

\* the atoms of f that differ from the good form's
Defects(f) == {x \in DOMAIN GoodForm : f[x] # GoodForm[x]}

\* the forms read: the good one, and those with one or two other atoms
ProtectedForms == {f \in FormChoices : Cardinality(Defects(f)) <= 2}

\* what hash_passphrase is called with: the passphrases of the keys, the
\* empty one and one of 1020 bytes; the S2K modes and one that is none; the
\* coded counts 0, 17 and 96; key lengths below and above the digest length
S2kPassphrases == Passphrases \cup {<<>>, [i \in 1..1020 |-> Lit(97)]}

S2kCalls ==
  [passphrase : S2kPassphrases, s2kmode : 0..3, s2kcount : {0, 17, 96},
   keylen : {0, PROT_CIPHER_KEYLEN, dlen, dlen + 4, 2 * dlen + 1},
   fail : {"none", "md_open"}]

\* a shadowed key as a caller reads it from a file:
\* (<top> (rsa (n x)(e y) (shadowed <protocol> <locator>))), the last list
\* being there when f.shadowed says so
ShadowedKey(f) ==
  List(Atom(f.top)
       \o List(Atom(TOK_rsa) \o Parm(Ch("n"), Ch("x")) \o Parm(Ch("e"), Ch("y"))
               \o (IF f.shadowed
                   THEN List(Atom(TOK_shadowed) \o Atom(f.protocol) \o f.locator)
                   ELSE <<>>)))

ShadowedForms ==
  [top : {TOK_shadowed_private_key, TOK_private_key},
   shadowed : BOOLEAN,
   protocol : {TOK_t1_v1, B(<<"t","1","-","v","2">>)},
   locator : {List(Atom(B(<<"c","a","r","d">>))), Atom(Ch("a"))}]

\* where agent_unprotect finds the ciphertext atom's payload in a buffer
\* agent_protect built: [s |-> first index, n |-> length]
locate_ciphertext(protectedkey) ==
  LET atom(r, skip) == IF r.n = 0 THEN r
                       ELSE snext(protectedkey, r.s + r.n + skip)
      found(f) == IF f.rc # OK THEN [n |-> 0, s |-> f.s]
                  ELSE snext(protectedkey, f.s)
      algo(r2) == IF r2.n = 0 THEN r2
                  ELSE found(find_protected(protectedkey, r2.s + r2.n))
      mode(r1) == atom(atom(atom(atom(atom(algo(r1), 2), 0), 0), 1), 1)
  IN mode(snext(protectedkey, 2 + 3 + Len(TOK_protected_private_key) + 1))

(***************************************************************************)
(* One key's life: a caller protects or shadows a key, the stored buffer   *)
(* may be altered at rest, and a caller reads it back.                     *)
(***************************************************************************)
VARIABLES
  pc,          \* "idle", "protected", "shadowed", "failed", "unprotected",
               \* "read", "located", "looked", "derived", "classified"
  call,        \* the calls made so far and their arguments
  keyfile,     \* the stored buffer
  tamper,      \* what was done to keyfile at rest
  rc,          \* the last return code
  result,      \* the caller's unsigned char *result
  resultlen,   \* the caller's size_t resultlen
  shadow_info, \* the caller's unsigned char const *shadow_info
  live,        \* allocations and handles the last call left unreleased
  seen,        \* what the last agent_unprotect saw of the MIC
  ktype,       \* the last agent_private_key_type
  server_local, \* keyboxd: the connection's struct server_local_s
  opgp_req,    \* keyboxd: the connection's ctrl->opgp_req
  log,         \* keyboxd: the commands of the connection and their outcomes
  lastcall,    \* keyboxd: the last call of kbxd_search a caller made directly
  skip         \* the call of sskip under way: its arguments, s, d and its return

\* the state of the key protection code, and that of the keyboxd connection
keyvars == <<pc, call, keyfile, tamper, rc, result, resultlen, shadow_info, live,
             seen, ktype>>

kbxvars == <<server_local, opgp_req, log, lastcall>>

vars == <<keyvars, kbxvars, skip>>

Unset == [ptr |-> "unset", buf |-> <<>>]

Null == [ptr |-> "null", buf |-> <<>>]

Heap(buf) == [ptr |-> "heap", buf |-> buf]

\* form: the atoms of the protected key agent_unprotect was handed, when a
\* caller read it from a file
\* op: the last operation; key, pass, salt, fail: the arguments of
\* agent_protect (key, pass: those of agent_shadow_key, the buffer of
\* agent_private_key_type); tried, kind, fail: those of agent_unprotect
\* no call of kbxd_search was made
NoSearchCall ==
  [made |-> FALSE, desc |-> NoDesc, reset |-> FALSE, before |-> NullRequest,
   resetting |-> <<>>, search |-> <<>>, err |-> GPG_ERR_NO_ERROR,
   resets |-> <<>>, calls |-> <<>>]

NoCall == [op |-> "none", key |-> <<>>, pass |-> <<>>, salt |-> <<>>,
           tried |-> <<>>, kind |-> "none", fail |-> "none", form |-> <<>>,
           asserts |-> NoAsserts, enc |-> NoEnc, n |-> 0]

NoTamper == [kind |-> "none", pos |-> 0, bit |-> 0]

NotSeen == [merged |-> FALSE, micok |-> FALSE, find |-> NoFind,
            merge |-> NoMerge]

\* no call of sskip yet
NoSkip == [at |-> "none", buf |-> <<>>, s0 |-> 0, d0 |-> 0,
           st |-> [rc |-> OK, s |-> 0, depth |-> 0],
           ret |-> [rc |-> OK, s |-> 0, depth |-> 0]]

Init ==
  /\ pc = "idle"
  /\ call = NoCall
  /\ keyfile = <<>>
  /\ tamper = NoTamper
  /\ rc = OK
  /\ result = Unset
  /\ resultlen = -1
  /\ shadow_info = -1
  /\ live = {}
  /\ seen = NotSeen
  /\ ktype = "unset"
  /\ server_local = ZeroServerLocal
  /\ opgp_req = NullRequest
  /\ log = <<>>
  /\ lastcall = NoSearchCall
  /\ skip = NoSkip

\* what a call leaves in the caller's result and resultlen
Stored(r) == IF "result" \in r.set
             THEN (IF r.result = <<>> THEN Null ELSE Heap(r.result))
             ELSE result

StoredLen(r) == IF "resultlen" \in r.set THEN r.resultlen ELSE resultlen

Protect(K, P, flavour, fail) ==
  /\ pc = "idle"
  /\ \E r \in {agent_protect(K, P, Rnd(flavour), fail)} :
     /\ pc' = IF r.rc = OK THEN "protected" ELSE "failed"
     /\ call' = [NoCall EXCEPT !.op = "protect", !.key = K, !.pass = P,
                   !.salt = Span(Rnd(flavour), 2 * blklen + 1, 2 * blklen + 8),
                   !.fail = fail, !.asserts = r.asserts, !.enc = r.enc]
     /\ keyfile' = IF r.rc = OK THEN r.result ELSE keyfile
     /\ rc' = r.rc
     /\ result' = Stored(r)
     /\ resultlen' = StoredLen(r)
     /\ live' = r.live
     /\ UNCHANGED <<tamper, shadow_info, seen, ktype>>
     /\ UNCHANGED <<kbxvars, skip>>

\* one bit of the ciphertext atom's payload flips at rest
FlipCiphertextBit(pos, bit) ==
  /\ pc = "protected"
  /\ tamper = NoTamper
  /\ \E c \in {locate_ciphertext(keyfile)} :
     /\ pos \in 1..c.n
     /\ c.s + c.n - 1 <= Len(keyfile)
     /\ keyfile' = [keyfile EXCEPT ![c.s + pos - 1] = FlipBit(@, bit)]
     /\ tamper' = [kind |-> "flip", pos |-> pos, bit |-> bit]
     /\ UNCHANGED <<pc, call, rc, result, resultlen, shadow_info, live, seen, ktype>>
     /\ UNCHANGED <<kbxvars, skip>>

\* the buffer loses what follows the ciphertext atom's payload; a NUL ends it
Truncate ==
  /\ pc = "protected"
  /\ tamper = NoTamper
  /\ \E c \in {locate_ciphertext(keyfile)} :
     /\ c.n > 0
     /\ c.s + c.n - 1 <= Len(keyfile)
     /\ keyfile' = Span(keyfile, 1, c.s + c.n - 1) \o <<NUL>>
     /\ tamper' = [kind |-> "truncate", pos |-> c.s + c.n, bit |-> 0]
     /\ UNCHANGED <<pc, call, rc, result, resultlen, shadow_info, live, seen, ktype>>
     /\ UNCHANGED <<kbxvars, skip>>

\* one bit of the first public parameter's value flips at rest
AlterPublic(bit) ==
  /\ pc = "protected"
  /\ tamper = NoTamper
  /\ \E val \in {LET atom(r, gap) == IF r.n = 0 THEN r
                                       ELSE snext(keyfile, r.s + r.n + gap)
                  IN atom(atom(snext(keyfile,
                                     2 + 3 + Len(TOK_protected_private_key) + 1),
                               1), 0)} :
     /\ val.n > 0
     /\ keyfile' = [keyfile EXCEPT ![val.s] = FlipBit(@, bit)]
     /\ tamper' = [kind |-> "public", pos |-> val.s, bit |-> bit]
     /\ UNCHANGED <<pc, call, rc, result, resultlen, shadow_info, live, seen, ktype>>
     /\ UNCHANGED <<kbxvars, skip>>

\* the passphrases tried on a stored key: the known ones, and the one made
\* of the protecting passphrase, the stored salt and the passphrase again
TriedPassphrases == Passphrases \cup {call.pass \o call.salt \o call.pass}

\* How a stored key is read back.  A buffer left alone is read with every
\* passphrase, wrong keys deciphering to every kind of garbage, and with
\* every library call failing in turn; an altered buffer is read with the
\* passphrase that protected it.
Attempts ==
  IF tamper = NoTamper
  THEN [pass : TriedPassphrases, kind : GarbageKinds, fail : {"none"}]
       \cup [pass : TriedPassphrases, kind : {"noise"}, fail : UnprotectFailures]
  ELSE [pass : {call.pass}, kind : {"noise"}, fail : {"none"}]

MaxScan == 3

\* the lists a key read from a file holds behind the algorithm: a parameter,
\* one with lists inside, one with a list named protected inside, one named
\* protectedx, the protected list and one of another mode
ScanItems == {"parm", "nested", "hidden", "long", "prot", "other"}

ScanItem(x) ==
  LET plist(mode) ==
        List(Atom(TOK_protected) \o Atom(mode)
             \o List(List(Atom(GoodForm.hash) \o Atom(GoodForm.salt)
                          \o Atom(GoodForm.count))
                     \o Atom(GoodForm.iv))
             \o Atom(GoodForm.ctext))
  IN CASE x = "parm" -> Parm(Ch("n"), Ch("x"))
       [] x = "nested" ->
            List(Atom(Ch("e")) \o List(Atom(Ch("y")) \o List(Atom(Ch("z")))))
       [] x = "hidden" ->
            List(Atom(Ch("n")) \o List(Atom(TOK_protected) \o Atom(Ch("x"))))
       [] x = "long" -> Parm(TOK_protected \o Ch("x"), Ch("a"))
       [] x = "prot" -> plist(GoodForm.mode)
       [] x = "other" ->
            plist(B(<<"o","p","e","n","p","g","p","-","n","a","t","i","v","e">>))

RECURSIVE ScanItemsOf(_, _)
ScanItemsOf(items, n) ==
  IF n = 0 THEN <<>> ELSE ScanItemsOf(items, n - 1) \o ScanItem(items[n])

\* (protected-private-key (rsa <items>)), whole or cut behind the items
ScannedKey(f) ==
  <<LPAREN>> \o Atom(TOK_protected_private_key)
  \o <<LPAREN>> \o Atom(TOK_rsa) \o ScanItemsOf(f.items, Len(f.items))
  \o (IF f.closed THEN <<RPAREN, RPAREN>> ELSE <<>>)

ScanForms ==
  [items : UNION {[1..n -> ScanItems] : n \in 0..MaxScan}, closed : BOOLEAN]

\* What agent_unprotect is called on: the stored key, read back as Attempts
\* says, or a protected key that a caller read from a file.
UnprotectCalls ==
  CASE pc = "protected" ->
         {[op |-> "unprotect", key |-> keyfile, form |-> <<>>, pass |-> a.pass,
           kind |-> a.kind, fail |-> a.fail] : a \in Attempts}
    [] pc = "idle" ->
         {[op |-> "unprotect_input", key |-> ProtectedKey(f), form |-> f,
           pass |-> B(<<"a","b">>), kind |-> k.kind, fail |-> k.fail] :
            f \in ProtectedForms,
            k \in {x \in [kind : GarbageKinds, fail : UnprotectFailures] :
                     x.kind = "noise" \/ x.fail = "none"}}
         \cup
         {[op |-> "unprotect_scanned", key |-> ScannedKey(f), form |-> f,
           pass |-> B(<<"a","b">>), kind |-> "noise", fail |-> "none"] :
            f \in ScanForms}
    [] OTHER -> {}

\* agent_unprotect: on the stored key (pc "protected", then "unprotected"), or
\* on a protected key read from a file (pc "idle", then "read")
Unprotect(a) ==
  /\ pc \in {"idle", "protected"}
  /\ \E r \in {agent_unprotect(a.key, a.pass, a.kind, a.fail)} :
     /\ pc' = IF pc = "idle" THEN "read" ELSE "unprotected"
     /\ call' = IF pc = "idle"
                THEN [NoCall EXCEPT !.op = a.op, !.key = a.key,
                                    !.tried = a.pass, !.kind = a.kind,
                                    !.fail = a.fail, !.form = a.form]
                ELSE [call EXCEPT !.op = a.op, !.tried = a.pass,
                                  !.kind = a.kind, !.fail = a.fail]
     /\ keyfile' = a.key
     /\ rc' = r.rc
     /\ result' = Stored(r)
     /\ resultlen' = StoredLen(r)
     /\ live' = r.live
     /\ seen' = [merged |-> r.merged, micok |-> r.micok, find |-> r.find,
                 merge |-> r.merge]
     /\ UNCHANGED <<tamper, shadow_info, ktype>>
     /\ UNCHANGED <<kbxvars, skip>>

Shadow(PUB, SI, fail) ==
  /\ pc = "idle"
  /\ \E r \in {agent_shadow_key(PUB, SI, fail)} :
     /\ pc' = IF r.rc = OK THEN "shadowed" ELSE "failed"
     /\ call' = [NoCall EXCEPT !.op = "shadow", !.key = PUB, !.pass = SI,
                               !.fail = fail, !.n = r.n]
     /\ keyfile' = IF r.rc = OK THEN r.result ELSE keyfile
     /\ rc' = r.rc
     /\ result' = Stored(r)
     /\ live' = r.live
     /\ UNCHANGED <<tamper, resultlen, shadow_info, seen, ktype>>
     /\ UNCHANGED <<kbxvars, skip>>

GetShadowInfo ==
  /\ pc = "shadowed"
  /\ \E r \in {agent_get_shadow_info(keyfile)} :
     /\ pc' = "located"
     /\ rc' = r.rc
     /\ shadow_info' = IF "shadow_info" \in r.set THEN r.shadow_info
                       ELSE shadow_info
     /\ UNCHANGED <<call, keyfile, tamper, result, resultlen, live, seen, ktype>>
     /\ UNCHANGED <<kbxvars, skip>>

\* hash_passphrase with the arguments a and a salt; key is the caller's buffer
HashPassphrase(a) ==
  /\ pc = "idle"
  /\ \E r \in {hash_passphrase(a.passphrase, a.s2kmode, Foreign(8), a.s2kcount,
                                a.keylen, a.fail)} :
     /\ pc' = "derived"
     /\ call' = [NoCall EXCEPT !.op = "hash_passphrase", !.pass = a.passphrase,
                               !.salt = Foreign(8), !.fail = a.fail, !.form = a]
     /\ rc' = r.rc
     /\ result' = IF r.rc = OK THEN Heap(r.key) ELSE result
     /\ live' = r.live
     /\ UNCHANGED <<keyfile, tamper, resultlen, shadow_info, seen, ktype>>
     /\ UNCHANGED <<kbxvars, skip>>

\* agent_get_shadow_info on a shadowed key a caller read from a file
GetShadowInfoInput(f) ==
  /\ pc = "idle"
  /\ \E r \in {agent_get_shadow_info(ShadowedKey(f))} :
     /\ pc' = "looked"
     /\ call' = [NoCall EXCEPT !.op = "get_shadow_info", !.key = ShadowedKey(f),
                               !.form = f]
     /\ keyfile' = ShadowedKey(f)
     /\ rc' = r.rc
     /\ shadow_info' = IF "shadow_info" \in r.set THEN r.shadow_info
                       ELSE shadow_info
     /\ UNCHANGED <<tamper, result, resultlen, live, seen, ktype>>
     /\ UNCHANGED <<kbxvars, skip>>

\* agent_private_key_type on what agent_protect or agent_shadow_key built
ClassifyStored ==
  /\ pc \in {"protected", "shadowed"}
  /\ tamper = NoTamper
  /\ pc' = "classified"
  /\ ktype' = agent_private_key_type(keyfile)
  /\ UNCHANGED <<call, keyfile, tamper, rc, result, resultlen, shadow_info, live,
                 seen>>
  /\ UNCHANGED <<kbxvars, skip>>

\* agent_private_key_type on a buffer a caller read
ClassifyInput(buf) ==
  /\ pc = "idle"
  /\ pc' = "classified"
  /\ call' = [NoCall EXCEPT !.op = "classify", !.key = buf]
  /\ keyfile' = buf
  /\ ktype' = agent_private_key_type(buf)
  /\ UNCHANGED <<tamper, rc, result, resultlen, shadow_info, live, seen>>
  /\ UNCHANGED <<kbxvars, skip>>

Next ==
  \/ \E K \in PlainKeys, P \in Passphrases, flavour \in RandomFlavours,
        fail \in ProtectFailures : Protect(K, P, flavour, fail)
  \/ \E pos \in 1..(8 * blklen), bit \in 0..MaxFlipBit : FlipCiphertextBit(pos, bit)
  \/ Truncate
  \/ \E bit \in 0..MaxFlipBit : AlterPublic(bit)
  \/ \E a \in UnprotectCalls : Unprotect(a)
  \/ \E PUB \in PubKeys, SI \in ShadowInfos, fail \in ShadowFailures :
        Shadow(PUB, SI, fail)
  \/ GetShadowInfo
  \/ \E a \in S2kCalls : HashPassphrase(a)
  \/ \E f \in ShadowedForms : GetShadowInfoInput(f)
  \/ ClassifyStored
  \/ \E buf \in PlainKeys \cup PubKeys \cup ShadowInfos : ClassifyInput(buf)

Spec == Init /\ [][Next]_vars

(***************************************************************************)
(* One connection to keyboxd: a client sends SEARCH and NEXT commands      *)
(***************************************************************************)
\* commands per connection
MaxCmds == 4

\* what follows the options of a SEARCH: no pattern, which classify_user_id
\* refuses, and two patterns it accepts
Lines == {[text |-> <<>>, valid |-> FALSE], [text |-> Ch("a"), valid |-> TRUE],
          [text |-> Ch("b"), valid |-> TRUE]}

\* what the backend and the allocator do during one command: a key found in
\* the first keybox, in the second, in none; an allocation failing
KbxEnvs ==
  LET ok == [i \in 1..no_of_databases |-> GPG_ERR_NO_ERROR]
      eof == [i \in 1..no_of_databases |-> GPG_ERR_EOF]
  IN {[fail |-> "none", reset |-> ok, search |-> ok],
      [fail |-> "none", reset |-> ok, search |-> [eof EXCEPT ![3] = GPG_ERR_NO_ERROR]],
      [fail |-> "none", reset |-> ok, search |-> eof],
      [fail |-> "calloc_desc", reset |-> ok, search |-> ok],
      [fail |-> "calloc_request", reset |-> ok, search |-> ok]}

Search(opt_more, line, env) ==
  /\ Len(log) < MaxCmds
  /\ \E r \in {cmd_search(server_local, opgp_req, opt_more, line, env)} :
     /\ server_local' = r.server_local
     /\ opgp_req' = r.opgp_req
     /\ log' = Append(log, [cmd |-> "SEARCH", more |-> opt_more, line |-> line,
                            err |-> r.err, searched |-> r.searched])
     /\ UNCHANGED <<keyvars, lastcall, skip>>

NextCmd(args, env) ==
  /\ Len(log) < MaxCmds
  /\ \E r \in {cmd_next(server_local, opgp_req, args, env)} :
     /\ server_local' = r.server_local
     /\ opgp_req' = r.opgp_req
     /\ log' = Append(log, [cmd |-> "NEXT", more |-> FALSE,
                            line |-> [text |-> <<>>, valid |-> ~args],
                            err |-> r.err, searched |-> r.searched])
     /\ UNCHANGED <<keyvars, lastcall, skip>>

NextKbx ==
  \/ \E opt_more \in BOOLEAN, line \in Lines, env \in KbxEnvs :
        Search(opt_more, line, env)
  \/ \E args \in BOOLEAN, env \in KbxEnvs : NextCmd(args, env)

SpecKbx == Init /\ [][NextKbx]_vars

(***************************************************************************)
(* One session calling kbxd_search again and again                         *)
(***************************************************************************)
\* what a backend returns to a search: a key, the end of the keybox, an error
BackendResults == {GPG_ERR_NO_ERROR, GPG_ERR_EOF, GPG_ERR_GENERAL}

\* what the allocator and the backends do during one call of kbxd_search; the
\* empty slots have no backend
IterEnvs ==
  {e \in [fail : {"none", "calloc_request"},
          reset : [1..no_of_databases -> {GPG_ERR_NO_ERROR, GPG_ERR_GENERAL}],
          search : [1..no_of_databases -> BackendResults]] :
     \A i \in 1..no_of_databases :
       databases[i] = DB_TYPE_NONE =>
         (e.reset[i] = GPG_ERR_NO_ERROR /\ e.search[i] = GPG_ERR_EOF)}

KbxdSearch(desc, reset, env) ==
  /\ \E r \in {kbxd_search(opgp_req, desc, Len(desc), reset, env)} :
     /\ opgp_req' = r.opgp_req
     /\ lastcall' = [made |-> TRUE, desc |-> desc, reset |-> reset,
                     before |-> opgp_req, resetting |-> env.reset,
                     search |-> env.search,
                     err |-> r.err, resets |-> r.resets, calls |-> r.calls]
  /\ UNCHANGED <<keyvars, server_local, log, skip>>

NextIter ==
  \E desc \in {NoDesc, <<Ch("a")>>}, reset \in BOOLEAN, env \in IterEnvs :
    KbxdSearch(desc, reset, env)

SpecIter == Init /\ [][NextIter]_vars

(***************************************************************************)
(* One call of sskip, turn by turn                                         *)
(***************************************************************************)
MaxSkipLen == 4

\* the octets that sskip and snext tell apart: parens, the colon, digits and
\* any other octet
SkipOctets == {LPAREN, RPAREN, COLON, Lit(48), Lit(49), Lit(50), Lit(97)}

RECURSIVE SkipBufs(_)
SkipBufs(n) ==
  IF n = 0 THEN {<<>>}
  ELSE SkipBufs(n - 1)
       \cup {Append(b, o) : b \in {x \in SkipBufs(n - 1) : Len(x) = n - 1},
                            o \in SkipOctets}

\* a caller's depth
SkipDepths == 0..2

\* the calls a caller makes: a buffer, a cursor into it and a depth
SkipCalls ==
  IF skip.at = "none"
  THEN [buf : SkipBufs(MaxSkipLen), s : 1..2, d : SkipDepths]
  ELSE {}

\* lines 434-436: s = *buf, d = *depth
SskipCall(buf, s, d) ==
  /\ skip.at = "none"
  /\ skip' = [at |-> "loop", buf |-> buf, s0 |-> s, d0 |-> d,
              st |-> [rc |-> OK, s |-> s, depth |-> d],
              ret |-> NoSkip.ret]
  /\ UNCHANGED <<keyvars, kbxvars>>

\* lines 438-459: one turn of while (d > 0)
SskipTurn ==
  /\ skip.at = "loop"
  /\ skip.st.rc = OK
  /\ skip.st.depth > 0
  /\ skip' = [skip EXCEPT !.st = sskip_step(skip.buf, skip.st)]
  /\ UNCHANGED <<keyvars, kbxvars>>

\* lines 453, 456 and 460-462: the returns; *buf and *depth are written by
\* the last one only
SskipReturn ==
  /\ skip.at = "loop"
  /\ skip.st.rc # OK \/ skip.st.depth <= 0
  /\ skip' = [skip EXCEPT
                !.at = "done",
                !.ret = IF skip.st.rc # OK
                        THEN [rc |-> skip.st.rc, s |-> skip.s0, depth |-> skip.d0]
                        ELSE skip.st]
  /\ UNCHANGED <<keyvars, kbxvars>>

NextSkip ==
  \/ \E c \in SkipCalls : SskipCall(c.buf, c.s, c.d)
  \/ SskipTurn
  \/ SskipReturn

SpecSkip == Init /\ [][NextSkip]_vars

(***************************************************************************)
(* Properties                                                              *)
(***************************************************************************)
\* the key hash_passphrase derives from P with the stored salt and count
DerivedKey(P) ==
  hash_passphrase(P, 3, call.salt, 96, PROT_CIPHER_KEYLEN, "none").key

\* buf is one canonical S-expression and nothing else
Canonical(buf) == gcry_sexp_canon_len(buf, 1, 0) = Len(buf)

\* the first element of the list buf is the atom tok, its length written
\* with or without a leading zero
TopAtomIs(buf, tok) ==
  \E head \in {<<LPAREN>> \o z \o Atom(tok) : z \in {<<>>, <<Lit(48)>>}} :
    \A i \in 1..Len(head) : At(buf, i) = head[i]

\* C1: agent_unprotect with the protecting passphrase, on the buffer
\* agent_protect built from a canonical key (with or without elements after
\* the algorithm list) under any IV, salt and pad bytes, returns success, a
\* buffer equal to the key byte for byte, and the key's length.
C1_RoundTrip ==
  (/\ pc = "unprotected"
   /\ tamper = NoTamper
   /\ call.fail = "none"
   /\ call.tried = call.pass
   /\ Canonical(call.key))
  => (rc = OK /\ result = Heap(call.key) /\ resultlen = Len(call.key))

\* C1: a key with an element after the algorithm list came back unchanged
\* under pad bytes that are all close parens
C1_Witness ==
  /\ pc = "unprotected"
  /\ tamper = NoTamper
  /\ call.tried = call.pass
  /\ call.key = PlainKey(1, "trailer")
  /\ call.salt = Span(Rnd("paren"), 2 * blklen + 1, 2 * blklen + 8)
  /\ rc = OK
  /\ result = Heap(call.key)

\* C2 as claimed: agent_unprotect on an untouched protected key with a
\* passphrase other than the protecting one fails, with BadPassphrase or
\* CorruptedProtection.
C2_WrongPassphrase ==
  (/\ pc = "unprotected"
   /\ tamper = NoTamper
   /\ call.fail = "none"
   /\ call.tried # call.pass)
  => rc \in {GNUPG_Bad_Passphrase, GNUPG_Corrupted_Protection}

\* C2 as amended: agent_unprotect on an untouched protected key with a
\* passphrase from which hash_passphrase derives another key than from the
\* protecting one never returns success; when the protected key was built
\* from a canonical key and no library call fails, the error is
\* BadPassphrase, CorruptedProtection or InvalidSexp.
C2_WrongKey ==
  (/\ pc = "unprotected"
   /\ tamper = NoTamper
   /\ DerivedKey(call.tried) # DerivedKey(call.pass))
  => /\ rc # OK
     /\ (call.fail = "none" /\ Canonical(call.key))
        => rc \in {GNUPG_Bad_Passphrase, GNUPG_Corrupted_Protection,
                   GNUPG_Invalid_Sexp}

\* C2: a wrong key deciphered the text to a canonical list that is no
\* parameter list, and merge_lists refused it
C2_Witness ==
  /\ pc = "unprotected"
  /\ tamper = NoTamper
  /\ call.fail = "none"
  /\ Canonical(call.key)
  /\ DerivedKey(call.tried) # DerivedKey(call.pass)
  /\ rc = GNUPG_Invalid_Sexp

\* C3: after one bit of the ciphertext atom's payload was flipped,
\* agent_unprotect with the protecting passphrase fails, with BadPassphrase
\* or CorruptedProtection.
C3_TamperDetected ==
  (pc = "unprotected" /\ tamper.kind = "flip")
  => rc \in {GNUPG_Bad_Passphrase, GNUPG_Corrupted_Protection}

\* C4: when agent_unprotect has merged the decrypted parameters into a
\* private key that calculate_mic parses, and the stored MIC differs from
\* the recomputed one, it returns CorruptedProtection, holds no buffer and
\* leaves the caller's result and resultlen as they were.
C4_MicMismatch ==
  [][(/\ pc = "protected"
      /\ pc' = "unprotected"
      /\ seen'.merged
      /\ ~seen'.micok)
     => (/\ rc' = GNUPG_Corrupted_Protection
         /\ live' = {}
         /\ result' = result
         /\ resultlen' = resultlen)]_vars

\* C4: a public parameter was altered at rest, the text deciphered well and
\* the MIC did not match
C4_Witness ==
  /\ pc = "unprotected"
  /\ tamper.kind = "public"
  /\ seen.merged
  /\ ~seen.micok
  /\ rc = GNUPG_Corrupted_Protection

\* C5: agent_private_key_type returns one of the four types; Protected for
\* what a successful agent_protect built, Shadowed for what a successful
\* agent_shadow_key built, Plain for a buffer whose top atom is private-key
\* and Unknown for a buffer with any other top atom.
C5_Classification ==
  pc = "classified"
  => /\ ktype \in {PRIVATE_KEY_UNKNOWN, PRIVATE_KEY_CLEAR, PRIVATE_KEY_PROTECTED,
                   PRIVATE_KEY_SHADOWED}
     /\ call.op = "protect" => ktype = PRIVATE_KEY_PROTECTED
     /\ call.op = "shadow" => ktype = PRIVATE_KEY_SHADOWED
     /\ (call.op = "classify" /\ TopAtomIs(keyfile, TOK_private_key))
        => ktype = PRIVATE_KEY_CLEAR
     /\ (/\ call.op = "classify"
         /\ ~TopAtomIs(keyfile, TOK_private_key)
         /\ ~TopAtomIs(keyfile, TOK_protected_private_key)
         /\ ~TopAtomIs(keyfile, TOK_shadowed_private_key))
        => ktype = PRIVATE_KEY_UNKNOWN

\* C6: agent_get_shadow_info on what agent_shadow_key built from a public
\* key and the shadow info SI succeeds, and the bytes at the returned
\* position are SI.
C6_ShadowReversible ==
  pc = "located"
  => /\ rc = OK
     /\ Span(keyfile, shadow_info, shadow_info + Len(call.pass) - 1) = call.pass

\* C7: the buffer a successful agent_protect or agent_unprotect returns is
\* a canonical list whose canonical length is the returned resultlen.
C7_CanonLength ==
  (pc \in {"protected", "unprotected"} /\ rc = OK)
  => /\ result.ptr = "heap"
     /\ resultlen > 0
     /\ gcry_sexp_canon_len(result.buf, 1, 0) = resultlen

\* C8: when agent_protect, agent_unprotect or agent_shadow_key returns an
\* error, the caller's result and resultlen hold what they held before the
\* call.
C8_NoOutputOnError ==
  [][(/\ pc' # pc
      /\ pc' \in {"failed", "unprotected"}
      /\ rc' # OK)
     => (result' = result /\ resultlen' = resultlen)]_vars

\* C9: when agent_protect or agent_unprotect has returned, with success or
\* with any error, with any library call failing, every buffer it allocated
\* but the one handed to the caller is freed and the cipher and hash
\* handles are closed.
C9_Released ==
  call.op \in {"protect", "unprotect"} => live = {}

\* C9: agent_protect returned after gcry_cipher_encrypt failed, when it
\* held the cipher handle, the workspace and the random bytes
C9_Witness ==
  /\ pc = "failed"
  /\ call.op = "protect"
  /\ call.fail = "encrypt"
  /\ rc = CryptoBackend
  /\ live = {}

\* C10: with no library call failing, a failing agent_unprotect returns
\* InvalidSexp, UnknownSexp, UnsupportedAlgorithm, UnsupportedProtection,
\* CorruptedProtection, BadPassphrase or OutOfCore.
C10_ErrorSet ==
  (pc = "unprotected" /\ call.fail = "none" /\ rc # OK)
  => rc \in {GNUPG_Invalid_Sexp, GNUPG_Unknown_Sexp, GNUPG_Unsupported_Algorithm,
             GNUPG_Unsupported_Protection, GNUPG_Corrupted_Protection,
             GNUPG_Bad_Passphrase, GNUPG_Out_Of_Core}

\* C11: agent_protect returns UnknownSexp when the top atom is not
\* private-key, whatever the algorithm atom, and UnsupportedAlgorithm when
\* the top atom is private-key and the algorithm atom is not in protect_info;
\* agent_unprotect does the same with the top atom protected-private-key.
\* Whichever library call is set to fail, the code is the same, nothing is
\* held and the caller's result is untouched: no allocation and no
\* cryptographic step comes before the two checks.
C11_HeaderChecks ==
  /\ (call.op = "protect"
      /\ call.key \in {PlainKey(1, "public"), PlainKey(1, "public_dsa")})
     => (rc = GNUPG_Unknown_Sexp /\ live = {} /\ result = Unset)
  /\ (call.op = "protect" /\ call.key = PlainKey(1, "dsa"))
     => (rc = GNUPG_Unsupported_Algorithm /\ live = {} /\ result = Unset)
  /\ (call.op = "unprotect_input"
      /\ call.form.top # TOK_protected_private_key)
     => (rc = GNUPG_Unknown_Sexp /\ live = {} /\ result = Unset)
  /\ (call.op = "unprotect_input"
      /\ call.form.top = TOK_protected_private_key
      /\ call.form.algo # TOK_rsa)
     => (rc = GNUPG_Unsupported_Algorithm /\ live = {} /\ result = Unset)

\* C11: agent_unprotect refused a buffer with the top atom private-key and
\* the algorithm dsa as an unknown S-expression, with gcry_cipher_open set to
\* fail
C11_Witness ==
  /\ call.op = "unprotect_input"
  /\ call.form.top = TOK_private_key
  /\ call.form.algo = TOK_dsa
  /\ call.fail = "cipher_open"
  /\ rc = GNUPG_Unknown_Sexp

\* C12: agent_unprotect on a protected key whose header, mode string and
\* hash atom are the expected ones and whose protected list has the shape
\* ((sha1 salt count) iv) ctext returns CorruptedProtection, and gives the
\* caller no result and no length, when the salt is not 8 bytes long, the
\* count reads as decimal zero, the IV is not 16 bytes long or the ciphertext
\* length is not a multiple of 16.
C12_ListValidation ==
  (/\ call.op = "unprotect_input"
   /\ Defects(call.form) # {}
   /\ Defects(call.form) \subseteq {"salt", "count", "iv", "ctext"})
  => (rc = GNUPG_Corrupted_Protection /\ result = Unset /\ resultlen = -1)

\* C12: a ciphertext of one block and a half was refused, all else being in
\* order
C12_Witness ==
  /\ call.op = "unprotect_input"
  /\ Defects(call.form) = {"ctext"}
  /\ Len(call.form.ctext) = blklen + 8
  /\ call.fail = "none"
  /\ rc = GNUPG_Corrupted_Protection

\* C13 as claimed: agent_unprotect on a protected key with the expected
\* header and mode string whose hash atom is not sha1 returns
\* CorruptedProtection.
C13_HashCorrupted ==
  (/\ call.op = "unprotect_input"
   /\ Defects(call.form) \cap {"top", "algo", "mode"} = {}
   /\ call.form.hash # TOK_sha1)
  => rc = GNUPG_Corrupted_Protection

\* C13 as amended: agent_unprotect on a protected key with the expected
\* header and mode string whose hash atom is of non-zero length and is not
\* sha1 returns UnsupportedProtection and gives the caller no result,
\* whatever the salt, the count, the IV and the ciphertext are.
C13_HashUnsupported ==
  (/\ call.op = "unprotect_input"
   /\ Defects(call.form) \cap {"top", "algo", "mode"} = {}
   /\ call.form.hash # TOK_sha1
   /\ call.form.hash # <<>>)
  => (rc = GNUPG_Unsupported_Protection /\ result = Unset)

\* C13: a protected key naming the hash sha2, all else being in order, was
\* refused as an unsupported protection
C13_Witness ==
  /\ call.op = "unprotect_input"
  /\ Defects(call.form) = {"hash"}
  /\ call.form.hash = B(<<"s","h","a","2">>)
  /\ call.fail = "none"
  /\ rc = GNUPG_Unsupported_Protection

\* C14: agent_unprotect on a protected key with the expected header whose
\* mode atom is another string than openpgp-s2k3-sha1-aes-cbc returns
\* UnsupportedProtection, holds nothing and gives the caller no result,
\* whatever the hash atom, the salt, the count, the IV and the ciphertext
\* are and whichever library call is set to fail: the mode string is
\* checked before any of them is read and before any key is derived.
C14_ModeString ==
  (/\ call.op = "unprotect_input"
   /\ Defects(call.form) \cap {"top", "algo"} = {}
   /\ call.form.mode # modestr)
  => (rc = GNUPG_Unsupported_Protection /\ live = {} /\ result = Unset)

\* C14: a protected key with the mode string openpgp-s2k3-sha1-des-cbc and
\* a salt of 7 bytes was refused as an unsupported protection, with
\* gcry_md_open set to fail
C14_Witness ==
  /\ call.op = "unprotect_input"
  /\ Defects(call.form) = {"mode", "salt"}
  /\ Len(call.form.mode) = Len(modestr)
  /\ call.fail = "md_open"
  /\ rc = GNUPG_Unsupported_Protection

\* C15: when the ciphertext of a protected key that is in order up to the
\* decryption deciphers to a text that does not begin with two open parens,
\* agent_unprotect returns BadPassphrase.
C15_QuickCheck ==
  (/\ call.op = "unprotect_input"
   /\ Defects(call.form) = {}
   /\ call.fail = "none"
   /\ \E text \in {GarbageText(call.kind, Len(call.form.ctext))} :
        text[1] # LPAREN \/ text[2] # LPAREN)
  => rc = GNUPG_Bad_Passphrase

\* the bytes pat stand in buf from index i on
OccursAt(buf, i, pat) == \A j \in 1..Len(pat) : At(buf, i + j - 1) = pat[j]

\* the first index from which pat stands in buf
IndexOf(buf, pat) ==
  CHOOSE i \in 1..Len(buf) :
    /\ OccursAt(buf, i, pat)
    /\ \A k \in 1..(i - 1) : ~OccursAt(buf, k, pat)

\* list is (9:protected25:openpgp-s2k3-sha1-aes-cbc((4:sha18:<salt>2:96)
\* 16:<iv>)<n>:<n bytes a cipher made>) for a whole number of blocks n
IsProtectedList(list, salt) ==
  \E n \in {blklen * k : k \in 1..(Len(list) \div blklen)} :
    \E pre \in {<<LPAREN>> \o Atom(TOK_protected) \o Atom(modestr)
                 \o <<LPAREN, LPAREN>> \o Atom(TOK_sha1) \o Atom(salt)
                 \o Atom(B(<<"9","6">>)) \o <<RPAREN>> \o Dec(blklen) \o <<COLON>>} :
      /\ Len(salt) = 8
      /\ OccursAt(list, 1, pre)
      /\ OccursAt(list, Len(pre) + blklen + 1, <<RPAREN>> \o Dec(n) \o <<COLON>>)
      /\ Len(list) = Len(pre) + blklen + 1 + Len(Dec(n)) + 1 + n + 1
      /\ list[Len(list)] = RPAREN
      /\ \A i \in (Len(list) - n)..(Len(list) - 1) : IsEncByte(list[i])

\* C16: the buffer a successful agent_protect returns is
\* (21:protected-private-key, then the key's bytes from behind its
\* private-key atom up to the list of d, then one protected list with the
\* salt, the count 96, an IV and a ciphertext of whole blocks, then the
\* key's bytes behind the list of u up to its end; no byte of the value of
\* d stands in it.
C16_ProtectFraming ==
  (pc = "protected" /\ tamper = NoTamper)
  => \E head \in {<<LPAREN>> \o Atom(TOK_protected_private_key)
                   \o Span(call.key,
                           IndexOf(call.key, Atom(TOK_private_key))
                           + Len(Atom(TOK_private_key)),
                           IndexOf(call.key, B(<<"(","1",":","d">>)) - 1)},
        rest \in {Span(call.key,
                       IndexOf(call.key, B(<<"(","1",":","u","1",":","c",")">>)) + 8,
                       Len(call.key))} :
       /\ OccursAt(keyfile, 1, head)
       /\ OccursAt(keyfile, Len(keyfile) - Len(rest) + 1, rest)
       /\ IsProtectedList(Span(keyfile, Len(head) + 1, Len(keyfile) - Len(rest)),
                          call.salt)
       /\ \A i \in 1..Len(keyfile) : DOMAIN keyfile[i] # {"v"}

\* C17: the buffer a successful agent_shadow_key returns for the public key
\* PUB and the shadow info SI is (20:shadowed-private-key, then PUB from
\* behind its public-key atom up to the close paren of the algorithm list,
\* then (8:shadowed5:t1-v1, SI and a close paren, then PUB from that close
\* paren to its end.
C17_ShadowFraming ==
  pc = "shadowed"
  => \E point \in {sskip(call.key, 2 + Len(Atom(TOK_public_key)) + 1, 1).s - 1} :
       keyfile = <<LPAREN>> \o Atom(TOK_shadowed_private_key)
                 \o Span(call.key, 2 + Len(Atom(TOK_public_key)), point - 1)
                 \o <<LPAREN>> \o Atom(TOK_shadowed) \o Atom(TOK_t1_v1)
                 \o call.pass \o <<RPAREN>>
                 \o Span(call.key, point, Len(call.key))

\* C17: a public key with an element behind the algorithm list was
\* shadowed, and that element is the end of the result
C17_Witness ==
  /\ pc = "shadowed"
  /\ call.key = PubKey("trailer")
  /\ OccursAt(keyfile, Len(keyfile) - 15,
              <<RPAREN, RPAREN>> \o List(Atom(B(<<"u","r","i">>))
                                         \o Atom(B(<<"h","t","t","p">>)))
              \o <<RPAREN>>)

\* C18: agent_get_shadow_info returns UnknownSexp when the top atom is not
\* shadowed-private-key or when the algorithm list closes without a list
\* named shadowed, UnsupportedProtocol when the protocol atom of the
\* shadowed list is not t1-v1, InvalidSexp when what follows t1-v1 does not
\* start with an open paren; whenever it returns an error the caller's
\* shadow_info is left unwritten.
C18_ShadowInfoOutcomes ==
  /\ call.op = "get_shadow_info"
     => /\ call.form.top # TOK_shadowed_private_key => rc = GNUPG_Unknown_Sexp
        /\ (call.form.top = TOK_shadowed_private_key /\ ~call.form.shadowed)
           => rc = GNUPG_Unknown_Sexp
        /\ (/\ call.form.top = TOK_shadowed_private_key
            /\ call.form.shadowed
            /\ call.form.protocol # TOK_t1_v1)
           => rc = GNUPG_Unsupported_Protocol
        /\ (/\ call.form.top = TOK_shadowed_private_key
            /\ call.form.shadowed
            /\ call.form.protocol = TOK_t1_v1
            /\ call.form.locator[1] # LPAREN)
           => rc = GNUPG_Invalid_Sexp
  /\ (pc \in {"located", "looked"} /\ rc # OK) => shadow_info = -1

\* C18: a shadowed key with the protocol t1-v2 was refused, and the
\* caller's shadow_info is as it was
C18_Witness ==
  /\ call.op = "get_shadow_info"
  /\ call.form.top = TOK_shadowed_private_key
  /\ call.form.shadowed
  /\ call.form.protocol # TOK_t1_v1
  /\ rc = GNUPG_Unsupported_Protocol
  /\ shadow_info = -1

\* the first n bytes of the endless repetition of unit
Repeated(unit, n) == [i \in 1..n |-> unit[((i - 1) % Len(unit)) + 1]]

\* C19: in mode 3 hash_passphrase decodes the coded count c as
\* (16 + (c & 15)) << ((c >> 4) + 6), raises it to pwlen + 8 when it is
\* smaller, and in every pass feeds the hash that many bytes: the head of
\* the endless repetition of salt and passphrase.  For c = 96 these are
\* 65536 bytes.  In mode 1 it feeds salt and passphrase once, in mode 0 the
\* passphrase alone.  The key is cut from the digests of these bytes, pass
\* k being preset with k zero bytes.
C19_KdfCount ==
  (call.op = "hash_passphrase" /\ rc = OK)
  => \E a \in {call.form} :
       \E decoded \in {(16 + (a.s2kcount % 16)) * 2 ^ ((a.s2kcount \div 16) + 6)},
          len2 \in {Len(a.passphrase) + 8} :
         \E fed \in {CASE a.s2kmode = 3 ->
                           Repeated(call.salt \o a.passphrase,
                                    IF decoded < len2 THEN len2 ELSE decoded)
                        [] a.s2kmode = 1 -> call.salt \o a.passphrase
                        [] OTHER -> a.passphrase} :
           /\ a.s2kmode \in {0, 1, 3}
           /\ s2k_material(a.passphrase, a.s2kmode, call.salt, a.s2kcount)
              = Stream(fed, 1, <<>>)
           /\ (a.s2kmode = 3 /\ a.s2kcount = 96) => Len(fed) = 65536
           /\ result = Heap(s2k_passes(Stream(fed, 1, <<>>), 0, 0, a.keylen))

\* C19: a passphrase of 1020 bytes was hashed in mode 3 with the coded
\* count 0, and the 1024 bytes the count stands for were raised to 1028
C19_Witness ==
  /\ call.op = "hash_passphrase"
  /\ rc = OK
  /\ Len(call.pass) = 1020
  /\ call.form.s2kmode = 3
  /\ call.form.s2kcount = 0
  /\ s2k_material(call.pass, 3, call.salt, 0).n = 1028


\* command j of the connection is a SEARCH --more that was accepted
AcceptedMore(j) ==
  /\ log[j].cmd = "SEARCH"
  /\ log[j].more
  /\ log[j].err = GPG_ERR_NO_ERROR

\* the patterns stored when command j arrives: those of the accepted
\* SEARCH --more commands since the last other SEARCH, in the order given
RECURSIVE StoredBefore(_)
StoredBefore(j) ==
  CASE j <= 1 -> <<>>
    [] log[j - 1].cmd = "NEXT" -> StoredBefore(j - 1)
    [] AcceptedMore(j - 1) -> Append(StoredBefore(j - 1), log[j - 1].line.text)
    [] OTHER -> <<>>

\* C20: SEARCH --more protocol.  On a connection where no allocation fails,
\* (a) a SEARCH --more with a valid pattern returns success without searching;
\* (b) a SEARCH without --more and with a valid pattern runs one search, with
\* reset, over exactly the patterns stored since the --more sequence began, in
\* order, plus its own, and leaves the expecting-more state cleared;
\* (c) a SEARCH with no pattern returns an invalid-argument error when --more
\* is given or pending.
C20_MoreProtocol ==
  \A j \in 1..Len(log) :
    (/\ log[j].cmd = "SEARCH"
     /\ \A i \in 1..j : log[i].err # GPG_ERR_ENOMEM) =>
      /\ (log[j].more /\ log[j].line.valid) =>
           (log[j].err = GPG_ERR_NO_ERROR /\ log[j].searched = <<>>)
      /\ (~log[j].more /\ log[j].line.valid) =>
           /\ log[j].searched =
                <<[desc |-> Append(StoredBefore(j), log[j].line.text),
                   reset |-> TRUE]>>
           /\ j = Len(log) => ~server_local.search_expecting_more
      /\ (log[j].line.text = <<>> /\ (log[j].more \/ StoredBefore(j) # <<>>)) =>
           (log[j].err = GPG_ERR_INV_ARG /\ log[j].searched = <<>>)

\* the last SEARCH command before command j, 0 when there is none
RECURSIVE LastSearch(_)
LastSearch(j) ==
  CASE j <= 1 -> 0
    [] log[j - 1].cmd = "SEARCH" -> j - 1
    [] OTHER -> LastSearch(j - 1)

\* the SEARCH command i ran a search that returned success
SearchSucceeded(i) ==
  /\ i > 0
  /\ log[i].searched # <<>>
  /\ log[i].err = GPG_ERR_NO_ERROR

\* C21: NEXT gating.  A NEXT calls kbxd_search only if the most recent SEARCH
\* ran a search that returned success, and then without reset and with the
\* descriptions that SEARCH used; a NEXT (without arguments) after a failed
\* SEARCH, a SEARCH --more or no SEARCH at all returns NOTHING_FOUND without
\* searching, and a NEXT that does not search leaves server_local and the
\* request untouched.
C21_NextGating ==
  /\ [](\A j \in 1..Len(log) :
          log[j].cmd = "NEXT" =>
            /\ log[j].searched # <<>> =>
                 /\ SearchSucceeded(LastSearch(j))
                 /\ log[j].searched =
                      <<[desc |-> log[LastSearch(j)].searched[1].desc,
                         reset |-> FALSE]>>
            /\ (log[j].line.valid /\ ~SearchSucceeded(LastSearch(j))) =>
                 /\ log[j].err = GPG_ERR_NOTHING_FOUND
                 /\ log[j].searched = <<>>)
  /\ [][(/\ Len(log') = Len(log) + 1
         /\ log'[Len(log')].cmd = "NEXT"
         /\ log'[Len(log')].searched = <<>>) =>
          UNCHANGED <<server_local, opgp_req>>]_vars

\* a NEXT after a failed SEARCH was refused, and a NEXT after a multi-pattern
\* search that succeeded has searched
C21_Witness ==
  /\ Len(log) = 4
  /\ log[1].cmd = "SEARCH" /\ log[1].err = GPG_ERR_NOT_FOUND
  /\ log[2].cmd = "NEXT" /\ log[2].err = GPG_ERR_NOTHING_FOUND
  /\ log[3].cmd = "SEARCH" /\ log[3].err = GPG_ERR_NO_ERROR
  /\ log[3].searched # <<>>
  /\ log[4].cmd = "NEXT" /\ log[4].searched # <<>>

\* the non-empty slots from slot dbidx on, in ascending order
RECURSIVE SlotsFrom(_)
SlotsFrom(dbidx) ==
  CASE dbidx >= no_of_databases -> <<>>
    [] databases[dbidx + 1] = DB_TYPE_NONE -> SlotsFrom(dbidx + 1)
    [] OTHER -> <<dbidx>> \o SlotsFrom(dbidx + 1)

\* the last call of kbxd_search got its request and was asked to search on
Continued ==
  /\ lastcall.made
  /\ lastcall.before.allocated
  /\ lastcall.desc # NoDesc
  /\ ~lastcall.reset

\* the last call of kbxd_search got its request and was asked to reset
Restarted ==
  /\ lastcall.made
  /\ lastcall.before.allocated \/ lastcall.err # GPG_ERR_ENOMEM
  /\ lastcall.desc = NoDesc \/ lastcall.reset

\* some backend refuses the reset that the last call of kbxd_search asked for
ResetsFail ==
  \E i \in 1..no_of_databases :
    databases[i] # DB_TYPE_NONE /\ lastcall.resetting[i] # GPG_ERR_NO_ERROR

\* C30: database iteration in kbxd_search.  In a call without reset
\* next_dbidx does not decrease and never exceeds no_of_databases; the
\* backends are searched in ascending slot order, each but the last searched
\* having reported EOF; NOT_FOUND is returned only when every non-empty slot
\* from next_dbidx on reported EOF; an error of a backend other than EOF is
\* returned with next_dbidx at that backend; after NOT_FOUND a further call
\* without reset returns NOT_FOUND; a call with reset or without description
\* resets every non-empty backend and then has next_dbidx, any_search and
\* any_found at 0 (from where it searches when it has a description).
C30_Iteration ==
  /\ [](/\ opgp_req.next_dbidx <= no_of_databases
        /\ Continued => lastcall.before.next_dbidx <= opgp_req.next_dbidx
        /\ \A k \in 1..Len(lastcall.calls) :
             /\ databases[lastcall.calls[k].dbidx + 1] # DB_TYPE_NONE
             /\ lastcall.calls[k].err = lastcall.search[lastcall.calls[k].dbidx + 1]
             /\ k < Len(lastcall.calls) =>
                  /\ lastcall.calls[k].dbidx < lastcall.calls[k + 1].dbidx
                  /\ lastcall.calls[k].err = GPG_ERR_EOF
             /\ k = Len(lastcall.calls) =>
                  \/ /\ lastcall.calls[k].err = GPG_ERR_EOF
                     /\ lastcall.err = GPG_ERR_NOT_FOUND
                     /\ opgp_req.next_dbidx = no_of_databases
                  \/ /\ lastcall.calls[k].err # GPG_ERR_EOF
                     /\ lastcall.err = lastcall.calls[k].err
                     /\ opgp_req.next_dbidx = lastcall.calls[k].dbidx
        /\ (Continued /\ lastcall.err = GPG_ERR_NOT_FOUND) =>
             [k \in 1..Len(lastcall.calls) |-> lastcall.calls[k].dbidx] =
               SlotsFrom(lastcall.before.next_dbidx)
        /\ (Continued /\ lastcall.err # GPG_ERR_NOT_FOUND) =>
             lastcall.calls # <<>>
        /\ (Restarted /\ ResetsFail) =>
             /\ lastcall.err # GPG_ERR_NO_ERROR
             /\ lastcall.calls = <<>>
             /\ opgp_req = IF lastcall.before.allocated THEN lastcall.before
                           ELSE ZeroRequest
        /\ (Restarted /\ ~ResetsFail) =>
             /\ lastcall.resets = SlotsFrom(0)
             /\ lastcall.desc = NoDesc =>
                  /\ lastcall.err = GPG_ERR_NO_ERROR
                  /\ lastcall.calls = <<>>
                  /\ opgp_req = ZeroRequest
             /\ lastcall.desc # NoDesc =>
                  /\ lastcall.calls # <<>>
                  /\ lastcall.calls[1].dbidx = SlotsFrom(0)[1]
                  /\ opgp_req.any_search
                  /\ opgp_req.any_found = (lastcall.err = GPG_ERR_NO_ERROR)
                  /\ lastcall.err = GPG_ERR_NOT_FOUND =>
                       [k \in 1..Len(lastcall.calls) |-> lastcall.calls[k].dbidx]
                         = SlotsFrom(0))
  /\ [][(/\ lastcall.made
         /\ lastcall.err = GPG_ERR_NOT_FOUND
         /\ lastcall'.desc # NoDesc
         /\ ~lastcall'.reset) => lastcall'.err = GPG_ERR_NOT_FOUND]_vars

\* a call without reset, made after a key was found in the first keybox, went
\* on from there, where it met the end, to the second, where it found a key
C30_Witness ==
  /\ Continued
  /\ lastcall.before.next_dbidx = 0
  /\ lastcall.before.any_found
  /\ lastcall.calls = <<[dbidx |-> 0, err |-> GPG_ERR_EOF],
                        [dbidx |-> 2, err |-> GPG_ERR_NO_ERROR]>>
  /\ opgp_req.next_dbidx = 2

\* C22: the parameter walk of agent_protect.  A key whose inner list holds,
\* behind the algorithm, a wrong, a longer, a missing, an extra or a reordered
\* name, a parameter of no value, of two values or of a list as value, or an
\* atom before its close paren, is refused with InvalidSexp whichever library
\* call would fail; a key with exactly the lists n e d p q u is not refused
\* so; and the ciphertext of a protected key is that of the span from the
\* open paren of d to the close paren of u: the text before it and behind it
\* is copied, and the ciphertext has the length the span asks for.
C22_ParameterWalk ==
  (call.op = "protect") =>
    /\ (\E x \in WalkVariants : call.key = PlainKey(1, x)) =>
         (rc = GNUPG_Invalid_Sexp /\ pc = "failed")
    /\ (\E v \in 1..MaxValLen, x \in {"plain", "trailer"} :
          call.key = PlainKey(v, x) /\ (x = "plain" \/ v = 1)) =>
         /\ rc # GNUPG_Invalid_Sexp
         /\ (pc = "protected" /\ tamper = NoTamper) =>
              \E dopen \in {IndexOf(call.key, B(<<"(","1",":","d">>))},
                 uclose \in {IndexOf(call.key, B(<<"(","1",":","u","1",":","c",")">>)) + 7} :
                \E clen \in {((uclose - dopen + 1 + 41 + blklen) \div blklen) * blklen} :
                  /\ Span(keyfile, 15, 15 + (dopen - 5) - 1) = Span(call.key, 5, dopen - 1)
                  /\ OccursAt(keyfile, 15 + (dopen - 5),
                              <<LPAREN>> \o Atom(TOK_protected))
                  /\ Span(keyfile, Len(keyfile) - (Len(call.key) - uclose) + 1,
                          Len(keyfile))
                       = Span(call.key, uclose + 1, Len(call.key))
                  /\ OccursAt(keyfile,
                              Len(keyfile) - (Len(call.key) - uclose) - clen
                                - Len(Dec(clen)) - 2,
                              <<RPAREN>> \o Dec(clen) \o <<COLON>>)
                  /\ keyfile[Len(keyfile) - (Len(call.key) - uclose)] = RPAREN

\* a key with a seventh parameter was refused, no library call failing
C22_Witness ==
  /\ call.op = "protect"
  /\ call.key = PlainKey(1, "extra")
  /\ call.fail = "none"
  /\ rc = GNUPG_Invalid_Sexp

\* C23: the lengths of do_encryption.  Whenever agent_protect got as far as
\* filling the buffer to encrypt, outlen is protlen + 41 + 16, the buffer was
\* filled with exactly outlen bytes, and enclen is outlen rounded down to
\* whole blocks: a positive multiple of 16 above protlen + 41 and not above
\* protlen + 41 + 16.  And agent_unprotect, given the protecting passphrase,
\* does not answer BadPassphrase to an untouched buffer agent_protect made.
C23_EncryptionLength ==
  /\ (call.op \in {"protect", "unprotect"} /\ call.enc.written # 0) =>
       /\ call.enc.outlen = call.enc.protlen + 41 + 16
       /\ call.enc.written = call.enc.outlen
       /\ call.asserts.outbuf
       /\ call.enc.enclen = (call.enc.outlen \div 16) * 16
       /\ call.enc.enclen > 0
       /\ call.enc.enclen % 16 = 0
       /\ call.enc.protlen + 41 < call.enc.enclen
       /\ call.enc.enclen <= call.enc.protlen + 41 + 16
  /\ (/\ pc = "unprotected"
      /\ tamper = NoTamper
      /\ call.fail = "none"
      /\ call.tried = call.pass) => rc # GNUPG_Bad_Passphrase

\* C24: the output size of agent_protect.  The asserts depth == 1 before and
\* depth == 0 after the final skip and p - *result == *resultlen hold in
\* every call that reaches them; the buffer returned has *resultlen bytes;
\* and for a key (private-key (rsa ...) ...) that is 10 bytes, the bytes
\* before the list of d, the protected list and the bytes behind the list
\* of u.
C24_OutputSize ==
  (call.op = "protect") =>
    /\ call.asserts.depth1
    /\ call.asserts.depth0
    /\ call.asserts.result
    /\ rc = OK =>
         /\ result.ptr = "heap"
         /\ resultlen = Len(result.buf)
    /\ (/\ rc \in {OK, GNUPG_Out_Of_Core}
        /\ resultlen # -1
        /\ \E v \in 1..MaxValLen : call.key \in {PlainKey(v, "plain"), PlainKey(1, "trailer")}) =>
         resultlen =
           10 + (IndexOf(call.key, B(<<"(","1",":","d">>)) - 1)
              + call.enc.protectedlen
              + (Len(call.key)
                 - (IndexOf(call.key, B(<<"(","1",":","u","1",":","c",")">>)) + 7))

\* a key with an element behind the algorithm list was protected, the three
\* asserts reached
C24_Witness ==
  /\ pc = "protected"
  /\ call.op = "protect"
  /\ call.key = PlainKey(1, "trailer")
  /\ call.enc.protectedlen > 0
  /\ resultlen = Len(result.buf)
  /\ call.asserts.depth1 /\ call.asserts.depth0 /\ call.asserts.result

\* the first position behind the list that opens at position from
ListEnd(buf, from) == sskip(buf, from + 1, 1).s

\* C25: MIC coverage.  In every call of agent_protect that reaches the
\* hashing, the bytes hashed run from the open paren of the inner list
\* (ALGO ...) through its matching close paren; the digest is the one
\* calculate_mic computes on the same buffer; and it is the digest of the key
\* without a leading zero in the length of the first atom and without
\* elements behind the inner list.
C25_MicCoverage ==
  (call.op = "protect" /\ call.enc.hash_begin # 0) =>
    /\ At(call.key, call.enc.hash_begin) = LPAREN
    /\ OccursAt(call.key, call.enc.hash_begin - Len(TOK_private_key),
                TOK_private_key)
    /\ call.enc.hash_end = ListEnd(call.key, call.enc.hash_begin)
    /\ At(call.key, call.enc.hash_end - 1) = RPAREN
    /\ call.enc.hashed =
         gcry_md_hash_buffer(Span(call.key, call.enc.hash_begin,
                                  call.enc.hash_end - 1))
    /\ calculate_mic(call.key).rc = OK
    /\ calculate_mic(call.key).sha1hash = call.enc.hashed
    /\ call.key \in {PlainKey(1, "trailer"), PlainKey(1, "zero_top")} =>
         call.enc.hashed = calculate_mic(PlainKey(1, "plain")).sha1hash

\* a key with an element behind the inner list was protected
C25_Witness ==
  /\ pc = "protected"
  /\ call.op = "protect"
  /\ call.key = PlainKey(1, "trailer")
  /\ call.enc.hash_begin = 16
  /\ call.enc.hash_end = Len(call.key) - Len(List(Atom(B(<<"u","r","i">>))
                                                 \o Atom(B(<<"h","t","t","p">>))))
  /\ call.enc.hashed = calculate_mic(call.key).sha1hash

\* the value of the decimal digits buf[from .. to]
RECURSIVE DigitsValue(_, _, _)
DigitsValue(buf, from, to) ==
  IF to < from THEN 0
  ELSE 10 * DigitsValue(buf, from, to - 1) + (At(buf, to).c - 48)

\* an atom stands at position s of buf, its length written in k digits
AtomAt(buf, s, k) ==
  /\ \A j \in s..(s + k - 1) : digitp(At(buf, j))
  /\ At(buf, s + k) = COLON
  /\ DigitsValue(buf, s, s + k - 1) > 0

C27_KdfPasses ==
  (call.op = "hash_passphrase" /\ rc = OK)
  => \E a \in {call.form}, key \in {result.buf} :
       \E m \in {s2k_material(a.passphrase, a.s2kmode, call.salt, a.s2kcount)} :
         /\ a.keylen > 0
         /\ result.ptr = "heap"
         /\ Len(key) = a.keylen
         /\ \A j \in 1..a.keylen :
              key[j] = Digest((j - 1) \div dlen, m)[((j - 1) % dlen) + 1]
         /\ Cardinality({key[j].h : j \in 1..a.keylen})
            = (a.keylen + dlen - 1) \div dlen
         /\ \E first \in {IF a.keylen < dlen THEN a.keylen ELSE dlen} :
              Span(key, 1, first) = Span(Digest(0, m), 1, first)
         /\ a.keylen = PROT_CIPHER_KEYLEN =>
              key = Span(Digest(0, m), 1, PROT_CIPHER_KEYLEN)

\* a key of two digests and a byte was derived in three passes
C27_Witness ==
  /\ call.op = "hash_passphrase"
  /\ rc = OK
  /\ call.form.keylen = 2 * dlen + 1
  /\ Len(result.buf) = 2 * dlen + 1
  /\ Cardinality({result.buf[j].h : j \in 1..Len(result.buf)}) = 3

\* the first of the items that is a list named protected, 0 when none is
FirstProtected(items) ==
  IF \E k \in 1..Len(items) : items[k] \in {"prot", "other"}
  THEN CHOOSE k \in 1..Len(items) :
         /\ items[k] \in {"prot", "other"}
         /\ \A j \in 1..(k - 1) : items[j] \notin {"prot", "other"}
  ELSE 0

\* C28: locating the protected list.  agent_unprotect on a key with lists
\* behind the algorithm atom stops its search at the first of them whose
\* first atom is protected, whatever the lists before it hold, prot_begin
\* being the open paren of that list, and goes on with that list; when the
\* inner list closes or the data end without such a list, the search ends
\* and the call returns InvalidSexp.
C28_FindProtected ==
  (call.op = "unprotect_scanned")
  => \E k \in {FirstProtected(call.form.items)} :
       /\ seen.find.made
       /\ k = 0 =>
            /\ seen.find.rc = GNUPG_Invalid_Sexp
            /\ rc = GNUPG_Invalid_Sexp
       /\ k > 0 =>
            /\ seen.find.rc = OK
            /\ seen.find.prot_begin
               = Len(<<LPAREN>> \o Atom(TOK_protected_private_key)
                     \o <<LPAREN>> \o Atom(TOK_rsa)
                     \o ScanItemsOf(call.form.items, k - 1)) + 1
            /\ At(call.key, seen.find.prot_begin) = LPAREN
            /\ OccursAt(call.key, seen.find.prot_begin + 1, Atom(TOK_protected))
            /\ (rc = GNUPG_Unsupported_Protection) = (call.form.items[k] = "other")

\* the search went over a list with lists inside and one with a list named
\* protected inside, and stopped at the protected list behind them
C28_Witness ==
  /\ call.op = "unprotect_scanned"
  /\ call.form.items = <<"nested", "hidden", "prot">>
  /\ seen.find.rc = OK
  /\ seen.find.prot_begin > 0
  /\ rc # GNUPG_Invalid_Sexp

\* C29: no write behind the end of the output buffers.  merge_lists, when
\* it has allocated, writes no more bytes than it allocated, the NUL that
\* strcpy puts behind the first 15 bytes included; when the stored key is
\* unprotected with its passphrase it allocates the canonical lengths of the
\* protected key and of the cleartext and writes the length of the protected
\* key less 10, less the protected list, plus the decrypted parameters.
\* agent_shadow_key allocates the two canonical lengths and 32 and writes the
\* two lengths and 29, a NUL behind the first 24 bytes and one behind the
\* atoms shadowed and t1-v1 included.
C29_NoOverrun ==
  /\ (call.op \in {"unprotect", "unprotect_input", "unprotect_scanned"}
      /\ seen.merge.made /\ seen.merge.newlistlen > 0) =>
       /\ 15 + 1 <= seen.merge.newlistlen
       /\ seen.merge.written <= seen.merge.newlistlen
       /\ rc = OK =>
            /\ seen.merge.written = Len(result.buf)
            /\ seen.merge.written
               = gcry_sexp_canon_len(keyfile, 1, 0) - 10
                 - (ListEnd(keyfile, seen.find.prot_begin) - seen.find.prot_begin)
                 + call.enc.protlen
            /\ seen.merge.newlistlen
               = gcry_sexp_canon_len(keyfile, 1, 0) + call.enc.protlen + 41
  /\ (call.op = "shadow" /\ rc = OK) =>
       \E pubkey_len \in {gcry_sexp_canon_len(call.key, 1, 0)},
          shadow_info_len \in {gcry_sexp_canon_len(call.pass, 1, 0)} :
         /\ call.n = pubkey_len + shadow_info_len + 32
         /\ Len(result.buf) = pubkey_len + shadow_info_len + 29
         /\ 24 + 1 <= call.n
         /\ (IndexOf(result.buf, <<LPAREN>> \o Atom(TOK_shadowed) \o Atom(TOK_t1_v1)) - 1)
            + 18 + 1 <= call.n
         /\ Len(result.buf) <= call.n

\* the stored key with an element behind the algorithm list was unprotected
\* and merge_lists wrote less than it allocated
C29_Witness ==
  /\ call.op = "unprotect"
  /\ rc = OK
  /\ call.key = PlainKey(1, "trailer")
  /\ seen.merge.made
  /\ seen.merge.written = Len(call.key)
  /\ seen.merge.written < seen.merge.newlistlen
====
